---- MODULE Spec2Model ----
(***************************************************************************)
(* Model of HiddenServiceManager (src/HiddenService.hpp, .cpp): the        *)
(* manager's fields, the control connection it drives, and its operations. *)
(* A std::string is a sequence of one-character strings.                   *)
(***************************************************************************)
EXTENDS Integers, Sequences, FiniteSets, TLC

(* ------------------------------ strings ------------------------------ *)

\* Printable ASCII, code 32 at index 1 (the two quote characters, which no
\* string of the model uses, are spelled out).
AsciiTable ==
  << " ", "!", "\"", "#", "$", "%", "&", "<squote>", "(", ")", "*", "+", ",", "-", ".", "/",
     "0", "1", "2", "3", "4", "5", "6", "7", "8", "9", ":", ";", "<", "=", ">", "?",
     "@", "A", "B", "C", "D", "E", "F", "G", "H", "I", "J", "K", "L", "M", "N", "O",
     "P", "Q", "R", "S", "T", "U", "V", "W", "X", "Y", "Z", "[", "\\", "]", "^", "_",
     "<bquote>", "a", "b", "c", "d", "e", "f", "g", "h", "i", "j", "k", "l", "m", "n", "o",
     "p", "q", "r", "s", "t", "u", "v", "w", "x", "y", "z", "{", "|", "}", "~" >>

\* The byte value of a character ("\r" = 13, "\n" = 10).
Ord(c) ==
  IF c = "\r" THEN 13
  ELSE IF c = "\n" THEN 10
  ELSE 31 + (CHOOSE i \in 1..Len(AsciiTable) : AsciiTable[i] = c)

Digits == << "0", "1", "2", "3", "4", "5", "6", "7", "8", "9" >>

HexLower ==
  << "0", "1", "2", "3", "4", "5", "6", "7", "8", "9", "a", "b", "c", "d", "e", "f" >>

\* std::to_string of an int: decimal, no leading zeros, a minus sign before
\* a negative value.
RECURSIVE to_string(_)
to_string(n) ==
  IF n <= -10
  THEN to_string((n + 9) \div 10) \o << Digits[((n + 9) \div 10) * 10 - n + 1] >>
  ELSE IF n < 0 THEN << "-", Digits[1 - n] >>
  ELSE IF n < 10 THEN << Digits[n + 1] >>
  ELSE to_string(n \div 10) \o << Digits[(n % 10) + 1] >>

\* s.rfind(p, 0) == 0 : p is a prefix of s.
StartsWith(s, p) ==
  /\ Len(s) >= Len(p)
  /\ SubSeq(s, 1, Len(p)) = p

\* s.substr(n) : the part of s after its first n characters.
Substr(s, n) == SubSeq(s, n + 1, Len(s))

\* s.find(p, start) : the first 0-based position >= start of p in s, or -1
\* (npos).
FindFrom(s, p, start) ==
  LET hits == { i \in start..(Len(s) - Len(p)) : SubSeq(s, i + 1, i + Len(p)) = p }
  IN IF hits = {} THEN -1 ELSE CHOOSE i \in hits : \A j \in hits : i <= j

Find(s, p) == FindFrom(s, p, 0)

isdigit(c) == c \in { Digits[i] : i \in 1..10 }

Min(a, b) == IF a <= b THEN a ELSE b

(* ------------------- 64-bit arithmetic on byte limbs ------------------ *)
\* A size_t is eight bytes, least significant first.

RECURSIVE XorBits(_, _, _)
XorBits(x, y, n) ==
  IF n = 0 THEN 0
  ELSE ((x + y) % 2) + 2 * XorBits(x \div 2, y \div 2, n - 1)

Xor64(a, b) == [i \in 1..8 |-> XorBits(a[i], b[i], 8)]

RECURSIVE MulCol(_, _, _, _)
MulCol(a, b, k, i) ==
  IF i > k THEN 0 ELSE a[i] * b[k + 1 - i] + MulCol(a, b, k, i + 1)

RECURSIVE MulFrom(_, _, _, _)
MulFrom(a, b, k, carry) ==
  IF k > 8 THEN << >>
  ELSE LET t == MulCol(a, b, k, 1) + carry
       IN << t % 256 >> \o MulFrom(a, b, k + 1, t \div 256)

\* a * b modulo 2^64.
Mul64(a, b) == MulFrom(a, b, 1, 0)

\* v >> 47.
Shr47(a) ==
  LET r == (a[6] + 256 * a[7] + 65536 * a[8]) \div 128
  IN << r % 256, (r \div 256) % 256, r \div 65536, 0, 0, 0, 0, 0 >>

shift_mix(v) == Xor64(v, Shr47(v))

\* The first n (at most 8) bytes of a byte sequence as a little-endian word.
LoadBytes(bytes, n) == [i \in 1..8 |-> IF i <= n THEN bytes[i] ELSE 0]

HashMul == << 149, 233, 209, 91, 147, 167, 164, 198 >>   \* 0xc6a4a7935bd1e995

HashSeed == << 7, 105, 15, 199, 0, 0, 0, 0 >>            \* 0xc70f6907

RECURSIVE HashBlocks(_, _)
HashBlocks(bytes, hash) ==
  IF Len(bytes) = 0 THEN hash
  ELSE IF Len(bytes) >= 8
       THEN LET data == Mul64(shift_mix(Mul64(LoadBytes(bytes, 8), HashMul)), HashMul)
            IN HashBlocks(SubSeq(bytes, 9, Len(bytes)), Mul64(Xor64(hash, data), HashMul))
       ELSE Mul64(Xor64(hash, LoadBytes(bytes, Len(bytes))), HashMul)

\* std::hash<std::string> of the 64-bit libstdc++ build (its byte hash with
\* the seed of the library); the result as eight bytes.
StdHash(s) ==
  LET bytes == [i \in 1..Len(s) |-> Ord(s[i])]
      len   == << Len(s) % 256, Len(s) \div 256, 0, 0, 0, 0, 0, 0 >>
      h0    == Xor64(HashSeed, Mul64(len, HashMul))
      h1    == HashBlocks(bytes, h0)
      h2    == Mul64(shift_mix(h1), HashMul)
  IN shift_mix(h2)

\* oss << std::hex << std::setw(8) << std::setfill('0') << unsigned: the
\* low 32 bits in lowercase hex without leading zeros, padded to width 8.
RECURSIVE StripZeros(_)
StripZeros(ds) ==
  IF Len(ds) > 1 /\ ds[1] = "0" THEN StripZeros(Tail(ds)) ELSE ds

RECURSIVE PadLeft(_, _, _)
PadLeft(s, width, fill) ==
  IF Len(s) >= width THEN s ELSE PadLeft(<< fill >> \o s, width, fill)

Hex32(h) ==
  LET nib(i) == << HexLower[(h[i] \div 16) + 1], HexLower[(h[i] % 16) + 1] >>
  IN PadLeft(StripZeros(nib(4) \o nib(3) \o nib(2) \o nib(1)), 8, "0")

S_stub    == << "s", "t", "u", "b", "-" >>
S_onion   == << ".", "o", "n", "i", "o", "n" >>
S_colon   == << ":" >>
S_arrow   == << "-", ">" >>

\* StubKey taking the control port for the local service port.
StubKeyControlPort(cfg) ==
  cfg.local_bind_ip \o S_colon \o to_string(cfg.tor_control_port)
    \o S_arrow \o to_string(cfg.onion_virtual_port)

\* The key fed to the hash: "<ip>:<local port>-><virtual port>".
StubKey(cfg) ==
  cfg.local_bind_ip \o S_colon \o to_string(cfg.local_service_port)
    \o S_arrow \o to_string(cfg.onion_virtual_port)

makeDeterministicStubId(cfg) == S_stub \o Hex32(StdHash(StubKey(cfg)))

(* --------------------------- configuration --------------------------- *)

S_loopback == << "1", "2", "7", ".", "0", ".", "0", ".", "1" >>
S_anyaddr  == << "0", ".", "0", ".", "0", ".", "0" >>
S_key      == << "K", "9" >>

AuthModes == { "Cookie", "Password", "None" }

PersistenceModes == { "Ephemeral", "ProvidedKey" }

\* HiddenServiceManager::Config with the defaults of the header.  The host,
\* cookie path and password are only handed to the OS or compared, so they
\* stay opaque values.
DefaultConfig ==
  [ local_bind_ip               |-> S_loopback,
    local_service_port          |-> 5000,
    onion_virtual_port          |-> 12345,
    tor_control_host            |-> "127.0.0.1",
    tor_control_port            |-> 9051,
    auth_mode                   |-> "Cookie",
    tor_cookie_path             |-> "/run/tor/control.authcookie",
    tor_control_password        |-> "",
    persistence_mode            |-> "Ephemeral",
    provided_private_key_base64 |-> << >>,
    bootstrap_timeout           |-> 15000,
    redact_secrets_in_logs      |-> TRUE,
    enable_stub_mode            |-> TRUE ]

\* The delay between two polls of waitBootstrapped, in ms.
SleepMs == 1000

Cfg(stub, am, pm, key) ==
  [ DefaultConfig EXCEPT !.enable_stub_mode = stub,
                         !.auth_mode = am,
                         !.persistence_mode = pm,
                         !.provided_private_key_base64 = key,
                         !.bootstrap_timeout = SleepMs ]

\* The configurations a manager of the lifecycle specification is built with.
Configs ==
  { Cfg(TRUE, "Cookie", "Ephemeral", << >>),
    Cfg(TRUE, "None", "ProvidedKey", S_key),
    Cfg(FALSE, "Cookie", "Ephemeral", << >>),
    Cfg(FALSE, "Cookie", "ProvidedKey", S_key),
    Cfg(FALSE, "Cookie", "ProvidedKey", << >>),
    Cfg(FALSE, "Password", "Ephemeral", << >>) }

(* ------------------------------- state ------------------------------- *)

VARIABLES
  config,        \* config_
  control_fd,    \* control_fd_  (-1: not connected)
  service_id,    \* service_id_
  private_key,   \* private_key_
  ready,         \* ready_
  open_fds,      \* the sockets of the process that are open
  conn_authed,   \* the sockets the manager refers to on which an
                 \* AUTHENTICATE command succeeded
  conn_booted,   \* those on which a status reply reported PROGRESS >= 100
  io,            \* the system calls of the last public call, in order
  sent,          \* the commands the last public call put on a socket
  steps,         \* the steps the last public call ran, with their results
  call,          \* the last public call and what it returned
  prev,          \* whether the call before it was the same operation, and
                 \* then what that call returned
  first_addr,    \* the address the first successful setup published
  pf,            \* the pair of managers of the identifier specification
  xfer,          \* what the peer and the cookie file gave the last call of a
                 \* single step, and the reply lines sendCommand returned
  log,           \* the log lines of the last public call that carry data
  blocked,       \* the last public call has not returned: it waits in read()
  srv,           \* the SetupStructure, the file system it looks at, and
                 \* its last call
  tor            \* the ConfigureTor of the SetupStructure, the host it
                 \* configures, and its last call

vars ==
  << config, control_fd, service_id, private_key, ready, open_fds, conn_authed,
     conn_booted, io, sent, steps, call, prev, first_addr, pf, xfer, log,
     blocked, srv, tor >>

\* The manager and its environment at the start of a public call.
World ==
  [ control_fd  |-> control_fd,
    service_id  |-> service_id,
    private_key |-> private_key,
    ready       |-> ready,
    open_fds    |-> open_fds,
    conn_authed |-> conn_authed,
    conn_booted |-> conn_booted,
    io          |-> << >>,
    sent        |-> << >>,
    steps       |-> << >>,
    log         |-> << >>,
    hung        |-> FALSE ]

Ret(w, ok) == [ w |-> w, ret |-> ok ]

Step(w, name, ok) ==
  [ w EXCEPT !.steps = Append(@, [ name |-> name, ret |-> ok ]) ]

Sys(w, name) == [ w EXCEPT !.io = Append(@, name) ]

\* A log statement that prints data: the source line it stands on and the
\* text it inserts into the line.
Log(w, at, text) == [ w EXCEPT !.log = Append(@, [ at |-> at, text |-> text ]) ]

\* std::string HiddenServiceManager::onionAddress() const
onionAddressOf(sid) == IF sid = << >> THEN << >> ELSE sid \o S_onion

onionAddress == onionAddressOf(service_id)

\* A log statement that prints onionAddress().
LogAddr(w, at) == Log(w, at, onionAddressOf(w.service_id))

serviceID == service_id

isReady == ready

(* ------------------------- protocol strings -------------------------- *)

S_CRLF ==
  << "\r", "\n" >>

S_GETINFO ==
  << "G", "E", "T", "I", "N", "F", "O", " ", "s", "t", "a", "t", "u", "s", "/", "b",
     "o", "o", "t", "s", "t", "r", "a", "p", "-", "p", "h", "a", "s", "e", "\r", "\n" >>

S_PROGRESS ==
  << "P", "R", "O", "G", "R", "E", "S", "S", "=" >>

S_ADD_NEW ==
  << "A", "D", "D", "_", "O", "N", "I", "O", "N", " ", "N", "E", "W", ":", "E", "D",
     "2", "5", "5", "1", "9", "-", "V", "3", " " >>

S_ADD_KEY ==
  << "A", "D", "D", "_", "O", "N", "I", "O", "N", " ", "E", "D", "2", "5", "5", "1",
     "9", "-", "V", "3", ":" >>

S_ADD_ONION ==
  << "A", "D", "D", "_", "O", "N", "I", "O", "N" >>

S_Port ==
  << "P", "o", "r", "t", "=" >>

S_comma ==
  << "," >>

S_space ==
  << " " >>

S_DEL_ONION ==
  << "D", "E", "L", "_", "O", "N", "I", "O", "N" >>

S_AUTHENTICATE ==
  << "A", "U", "T", "H", "E", "N", "T", "I", "C", "A", "T", "E", " " >>

S_250 ==
  << "2", "5", "0" >>

S_5 ==
  << "5" >>

S_ServiceId ==
  << "2", "5", "0", "-", "S", "e", "r", "v", "i", "c", "e", "I", "d", "=" >>

S_ServiceID ==
  << "2", "5", "0", "-", "S", "e", "r", "v", "i", "c", "e", "I", "D", "=" >>

S_PrivateKey ==
  << "2", "5", "0", "-", "P", "r", "i", "v", "a", "t", "e", "K", "e", "y", "=" >>

(* ---------------------------- sendCommand ---------------------------- *)

\* What one ::write() call does: accept n bytes, fail with EINTR, or fail
\* with another error.
WAccept(n) == [ k |-> "n", n |-> n ]

WEintr == [ k |-> "eintr", n |-> 0 ]

WErr == [ k |-> "err", n |-> 0 ]

\* What one ::read() call does: deliver a chunk, fail with EINTR, fail with
\* another error, report end of stream, or never return (the peer sends
\* nothing and keeps the connection open).
RData(d) == [ k |-> "data", d |-> d ]

REintr == [ k |-> "eintr", d |-> << >> ]

RErr == [ k |-> "err", d |-> << >> ]

REof == [ k |-> "eof", d |-> << >> ]

RBlock == [ k |-> "block", d |-> << >> ]

\* WriteLoop taking the command for written after its first write() that
\* accepts bytes.
RECURSIVE WriteLoopOnce(_, _, _, _)
WriteLoopOnce(data, writes, delivered, calls) ==
  IF Len(data) = 0
  THEN [ ok |-> TRUE, delivered |-> delivered, calls |-> calls ]
  ELSE LET r    == IF writes = << >> THEN WAccept(Len(data)) ELSE Head(writes)
           rest == IF writes = << >> THEN << >> ELSE Tail(writes)
       IN CASE r.k = "eintr" -> WriteLoopOnce(data, rest, delivered, calls + 1)
            [] r.k = "err"   ->
                 [ ok |-> FALSE, delivered |-> delivered, calls |-> calls + 1 ]
            [] OTHER ->
                 [ ok |-> TRUE,
                   delivered |-> delivered \o SubSeq(data, 1, Min(r.n, Len(data))),
                   calls |-> calls + 1 ]

\* The write loop.  A write the script does not list accepts all that is left.
RECURSIVE WriteLoop(_, _, _, _)
WriteLoop(data, writes, delivered, calls) ==
  IF Len(data) = 0
  THEN [ ok |-> TRUE, delivered |-> delivered, calls |-> calls ]
  ELSE LET r    == IF writes = << >> THEN WAccept(Len(data)) ELSE Head(writes)
           rest == IF writes = << >> THEN << >> ELSE Tail(writes)
       IN CASE r.k = "eintr" -> WriteLoop(data, rest, delivered, calls + 1)
            [] r.k = "err"   ->
                 [ ok |-> FALSE, delivered |-> delivered, calls |-> calls + 1 ]
            [] OTHER ->
                 LET n == Min(r.n, Len(data))
                 IN WriteLoop(Substr(data, n), rest,
                              delivered \o SubSeq(data, 1, n), calls + 1)

is_final_line(line) ==
  IF Len(line) < 4 THEN FALSE
  ELSE IF ~isdigit(line[1]) \/ ~isdigit(line[2]) \/ ~isdigit(line[3]) THEN FALSE
  ELSE line[4] = " "

\* is_success_2xx accepting every status code.
is_success_digit(line) == Len(line) >= 3 /\ isdigit(line[1])

is_success_2xx(line) == Len(line) >= 3 /\ line[1] = "2"

\* The inner loop: every complete CRLF-terminated line of the buffer, from
\* `start` on, goes to the reply; the rest stays in the buffer.
RECURSIVE ExtractLines(_, _, _, _, _)
ExtractLines(buffer, start, lines, got_final, final_success) ==
  LET pos == FindFrom(buffer, S_CRLF, start)
  IN IF pos = -1
     THEN [ buffer |-> Substr(buffer, start), lines |-> lines,
            got_final |-> got_final, final_success |-> final_success ]
     ELSE LET line == SubSeq(buffer, start + 1, pos)
              fin  == is_final_line(line)
          IN ExtractLines(buffer, pos + 2, Append(lines, line),
                          got_final \/ fin,
                          IF fin THEN is_success_2xx(line) ELSE final_success)

\* ReadLoop taking the lines it has for the reply when the peer closes.
RECURSIVE ReadLoopEofOk(_, _, _, _)
ReadLoopEofOk(reads, buffer, lines, calls) ==
  LET r    == IF reads = << >> THEN REof ELSE Head(reads)
      rest == IF reads = << >> THEN << >> ELSE Tail(reads)
  IN CASE r.k = "eintr" -> ReadLoopEofOk(rest, buffer, lines, calls + 1)
       [] r.k = "eof" ->
            [ ok |-> lines # << >>, lines |-> lines, calls |-> calls + 1,
              final |-> FALSE, hung |-> FALSE ]
       [] r.k = "err" ->
            [ ok |-> FALSE, lines |-> lines, calls |-> calls + 1,
              final |-> FALSE, hung |-> FALSE ]
       [] r.k = "block" ->
            [ ok |-> FALSE, lines |-> lines, calls |-> calls + 1,
              final |-> FALSE, hung |-> TRUE ]
       [] OTHER ->
            LET ex == ExtractLines(buffer \o r.d, 0, lines, FALSE, FALSE)
            IN IF ex.got_final
               THEN [ ok |-> ex.final_success, lines |-> ex.lines,
                      calls |-> calls + 1, final |-> TRUE, hung |-> FALSE ]
               ELSE ReadLoopEofOk(rest, ex.buffer, ex.lines, calls + 1)

\* The read loop.  After the last read of the script the peer has closed.
\* final: the loop was left at line 529; hung: a read() has not returned.
RECURSIVE ReadLoop(_, _, _, _)
ReadLoop(reads, buffer, lines, calls) ==
  LET r    == IF reads = << >> THEN REof ELSE Head(reads)
      rest == IF reads = << >> THEN << >> ELSE Tail(reads)
  IN CASE r.k = "eintr" -> ReadLoop(rest, buffer, lines, calls + 1)
       [] r.k \in { "err", "eof" } ->
            [ ok |-> FALSE, lines |-> lines, calls |-> calls + 1,
              final |-> FALSE, hung |-> FALSE ]
       [] r.k = "block" ->
            [ ok |-> FALSE, lines |-> lines, calls |-> calls + 1,
              final |-> FALSE, hung |-> TRUE ]
       [] OTHER ->
            LET ex == ExtractLines(buffer \o r.d, 0, lines, FALSE, FALSE)
            IN IF ex.got_final
               THEN [ ok |-> ex.final_success, lines |-> ex.lines,
                      calls |-> calls + 1, final |-> TRUE, hung |-> FALSE ]
               ELSE ReadLoop(rest, ex.buffer, ex.lines, calls + 1)

RECURSIVE Times(_, _)
Times(name, n) == IF n = 0 THEN << >> ELSE << name >> \o Times(name, n - 1)

\* The characters std::isspace accepts in the C locale; "<vt>" stands for
\* the vertical tab (byte 11), which has no escape in a TLA+ string.
isspace(c) == c \in { " ", "\t", "\n", "<vt>", "\f", "\r" }

\* strtol's step for one more decimal digit.  The long is held as four
\* 16-bit limbs, least significant first: ten times the value plus d, and
\* sat once the value has left the range of a positive long.
MulAdd10(a, d) ==
  LET c0 == 10 * a.l[1] + d
      c1 == 10 * a.l[2] + (c0 \div 65536)
      c2 == 10 * a.l[3] + (c1 \div 65536)
      c3 == 10 * a.l[4] + (c2 \div 65536)
  IN [ l   |-> << c0 % 65536, c1 % 65536, c2 % 65536, c3 % 65536 >>,
       sat |-> a.sat \/ c3 >= 32768 ]

\* The digits strtol consumes from the front of s.
RECURSIVE AtoiDigits(_, _)
AtoiDigits(s, acc) ==
  IF s = << >> \/ ~isdigit(Head(s)) THEN acc
  ELSE AtoiDigits(Tail(s), MulAdd10(acc, Ord(Head(s)) - 48))

\* The int a long converts to: strtol's result (LONG_MAX or LONG_MIN once
\* the digits leave the range of a long), cut to its low 32 bits.
IntOfLong(a, negative) ==
  LET lo == a.l[1]
      hi == a.l[2]
  IN IF a.sat THEN (IF negative THEN 0 ELSE -1)
     ELSE IF ~negative
     THEN (IF hi < 32768 THEN hi * 65536 + lo ELSE (hi - 65536) * 65536 + lo)
     ELSE IF hi < 32768 \/ (hi = 32768 /\ lo = 0)
     THEN (0 - hi) * 65536 - lo
     ELSE (65535 - hi) * 65536 + (65536 - lo)

\* std::atoi as the library computes it, (int) strtol(s, NULL, 10): leading
\* white space, an optional sign, then decimal digits.  A value outside the
\* range of int is undefined by the language; the library yields the long
\* cut to 32 bits.
RECURSIVE atoi(_)
atoi(s) ==
  IF s = << >> THEN 0
  ELSE IF isspace(Head(s)) THEN atoi(Tail(s))
  ELSE IF Head(s) = "-" THEN IntOfLong(AtoiDigits(Tail(s), [ l |-> << 0, 0, 0, 0 >>, sat |-> FALSE ]), TRUE)
  ELSE IF Head(s) = "+" THEN IntOfLong(AtoiDigits(Tail(s), [ l |-> << 0, 0, 0, 0 >>, sat |-> FALSE ]), FALSE)
  ELSE IntOfLong(AtoiDigits(s, [ l |-> << 0, 0, 0, 0 >>, sat |-> FALSE ]), FALSE)

\* The progress a status reply reports: the values after PROGRESS= in its
\* lines, as waitBootstrapped reads them.
ProgressOf(line) ==
  LET pos == Find(line, S_PROGRESS)
  IN IF pos = -1 THEN -1 ELSE atoi(Substr(line, pos + 9))

\* The scan of lines 174-186 looking at the first reply line only.
ReportsBootstrappedFirstLine(lines) ==
  \E i \in 1..Len(lines) : i = 1 /\ ProgressOf(lines[i]) >= 100

ReportsBootstrapped(lines) ==
  \E i \in 1..Len(lines) : ProgressOf(lines[i]) >= 100

\* What the daemon side of socket fd has seen after a command and its reply.
Observe(w, fd, command, wr, rd) ==
  [ w EXCEPT
      !.io   = @ \o Times("write", wr.calls) \o Times("read", rd.calls),
      !.sent = IF wr.delivered = << >> THEN @
               ELSE Append(@, [ fd        |-> fd,
                                cmd       |-> command,
                                delivered |-> wr.delivered,
                                authed    |-> fd \in w.conn_authed,
                                booted    |-> fd \in w.conn_booted ]),
      !.conn_authed = IF rd.ok /\ StartsWith(command, S_AUTHENTICATE)
                      THEN @ \cup { fd } ELSE @,
      !.conn_booted = IF rd.ok /\ command = S_GETINFO
                         /\ ReportsBootstrapped(rd.lines)
                      THEN @ \cup { fd } ELSE @,
      !.log  = IF rd.final /\ rd.lines # << >>
               THEN Append(@, [ at |-> 533, text |-> rd.lines[Len(rd.lines)] ])
               ELSE @,
      !.hung = rd.hung ]

NoRead ==
  [ ok |-> FALSE, lines |-> << >>, calls |-> 0, final |-> FALSE, hung |-> FALSE ]

S_250_OK == << "2", "5", "0", " ", "O", "K" >>

\* bool HiddenServiceManager::sendCommand(command, response_lines), with
\* the script sc = [writes, reads] of what the socket does.
sendCommand(w, command, sc) ==
  IF config.enable_stub_mode
  THEN [ ok |-> TRUE, lines |-> << S_250_OK >>, w |-> Log(w, 440, command) ]
  ELSE IF w.control_fd < 0
  THEN [ ok |-> FALSE, lines |-> << >>, w |-> w ]
  ELSE LET wr == WriteLoop(command, sc.writes, << >>, 0)
           rd == IF wr.ok THEN ReadLoop(sc.reads, << >>, << >>, 0) ELSE NoRead
       IN [ ok |-> rd.ok, lines |-> rd.lines,
            w |-> Observe(w, w.control_fd, command, wr, rd) ]

(* ------------------------- the private steps ------------------------- *)

\* The descriptor ::socket() returns: the lowest one not in use (0, 1 and 2
\* are the standard streams).
RECURSIVE LowestFree(_, _)
LowestFree(used, fd) == IF fd \in used THEN LowestFree(used, fd + 1) ELSE fd

FirstFd == 3

\* The loop over the getaddrinfo candidates; each is "sockfail" (::socket
\* fails), "connfail" (::connect fails) or "ok".
RECURSIVE ConnectLoop(_, _)
ConnectLoop(w, cands) ==
  IF cands = << >> THEN [ w |-> w, fd |-> -1 ]
  ELSE LET c  == Head(cands)
           fd == LowestFree(w.open_fds, FirstFd)
       IN CASE c = "sockfail" -> ConnectLoop(Sys(w, "socket"), Tail(cands))
            [] c = "connfail" ->
                 ConnectLoop(Sys(Sys(Sys(w, "socket"), "connect"), "close"),
                             Tail(cands))
            [] OTHER ->
                 [ w  |-> [ Sys(Sys(w, "socket"), "connect")
                              EXCEPT !.open_fds = @ \cup { fd } ],
                   fd |-> fd ]

\* connectControl without the stub bypass of lines 108-112.
connectControlNoBypass(w, cin) ==
  IF ~cin.gai_ok THEN Ret(w, FALSE)
  ELSE IF ConnectLoop(w, cin.cands).fd = -1
  THEN Ret(ConnectLoop(w, cin.cands).w, FALSE)
  ELSE Ret([ ConnectLoop(w, cin.cands).w
               EXCEPT !.control_fd = ConnectLoop(w, cin.cands).fd ], TRUE)

\* bool HiddenServiceManager::connectControl(), with cin = [gai_ok, cands]:
\* whether getaddrinfo succeeds and what each candidate address does.
connectControl(w, cin) ==
  IF config.enable_stub_mode
  THEN Ret([ w EXCEPT !.control_fd = -1 ], TRUE)
  ELSE IF ~cin.gai_ok THEN Ret(w, FALSE)
  ELSE LET r == ConnectLoop(w, cin.cands)
       IN IF r.fd = -1 THEN Ret(r.w, FALSE)
          ELSE Ret([ r.w EXCEPT !.control_fd = r.fd ], TRUE)

\* bool HiddenServiceManager::closeControl()
closeControl(w) == Ret([ w EXCEPT !.control_fd = -1 ], TRUE)

HexUpper ==
  << "0", "1", "2", "3", "4", "5", "6", "7", "8", "9", "A", "B", "C", "D", "E", "F" >>

\* The hexEncode lambda of authenticate: setw(2) applies to each byte.
RECURSIVE HexDigitsUpper(_)
HexDigitsUpper(n) ==
  IF n < 16 THEN << HexUpper[n + 1] >>
  ELSE HexDigitsUpper(n \div 16) \o << HexUpper[(n % 16) + 1] >>

\* hexEncode without std::setw(2).
RECURSIVE hexEncodeNoWidth(_)
hexEncodeNoWidth(bytes) ==
  IF bytes = << >> THEN << >>
  ELSE HexDigitsUpper(Head(bytes)) \o hexEncodeNoWidth(Tail(bytes))

RECURSIVE hexEncode(_)
hexEncode(bytes) ==
  IF bytes = << >> THEN << >>
  ELSE PadLeft(HexDigitsUpper(Head(bytes)), 2, "0") \o hexEncode(Tail(bytes))

\* AuthReplyOk taking every line that starts with "2" for a success line.
RECURSIVE AuthReplyOkAny2(_)
AuthReplyOkAny2(lines) ==
  IF lines = << >> THEN FALSE
  ELSE IF StartsWith(Head(lines), << "2" >>) THEN TRUE
  ELSE IF StartsWith(Head(lines), S_5) THEN FALSE
  ELSE AuthReplyOkAny2(Tail(lines))

\* The scan of the AUTHENTICATE reply: the first line that starts with
\* "250" or with "5" decides.
RECURSIVE AuthReplyOk(_)
AuthReplyOk(lines) ==
  IF lines = << >> THEN FALSE
  ELSE IF StartsWith(Head(lines), S_250) THEN TRUE
  ELSE IF StartsWith(Head(lines), S_5) THEN FALSE
  ELSE AuthReplyOk(Tail(lines))

\* authenticate without the test of lines 357-360.
authenticateNoFdCheck(w, ain) ==
  IF config.enable_stub_mode THEN Ret(w, TRUE)
  ELSE IF config.auth_mode # "Cookie" THEN Ret(w, FALSE)
  ELSE IF ~ain.cookie_open THEN Ret(Sys(w, "fopen"), FALSE)
  ELSE IF ain.cookie = << >> THEN Ret(Sys(w, "fopen"), FALSE)
  ELSE Ret(sendCommand(Sys(w, "fopen"),
                       S_AUTHENTICATE \o hexEncode(ain.cookie) \o S_CRLF,
                       ain.sc).w,
           sendCommand(Sys(w, "fopen"),
                       S_AUTHENTICATE \o hexEncode(ain.cookie) \o S_CRLF,
                       ain.sc).ok
             /\ AuthReplyOk(sendCommand(Sys(w, "fopen"),
                       S_AUTHENTICATE \o hexEncode(ain.cookie) \o S_CRLF,
                       ain.sc).lines))

\* authenticate without the test of lines 376-380.
authenticateNoEmptyCheck(w, ain) ==
  IF config.enable_stub_mode THEN Ret(w, TRUE)
  ELSE IF config.auth_mode # "Cookie" THEN Ret(w, FALSE)
  ELSE IF w.control_fd < 0 THEN Ret(w, FALSE)
  ELSE LET w1 == Sys(w, "fopen")
       IN IF ~ain.cookie_open THEN Ret(w1, FALSE)
          ELSE LET cmd == S_AUTHENTICATE \o hexEncode(ain.cookie) \o S_CRLF
                   r   == sendCommand(w1, cmd, ain.sc)
               IN IF ~r.ok THEN Ret(r.w, FALSE)
                  ELSE Ret(r.w, AuthReplyOk(r.lines))

\* bool HiddenServiceManager::authenticate(), with ain = [cookie_open,
\* cookie, sc]: whether the cookie file opens, its bytes, the socket script.
authenticate(w, ain) ==
  IF config.enable_stub_mode THEN Ret(w, TRUE)
  ELSE IF config.auth_mode # "Cookie" THEN Ret(w, FALSE)
  ELSE IF w.control_fd < 0 THEN Ret(w, FALSE)
  ELSE LET w1 == Sys(w, "fopen")
       IN IF ~ain.cookie_open THEN Ret(w1, FALSE)
          ELSE IF ain.cookie = << >> THEN Ret(w1, FALSE)
          ELSE LET cmd == S_AUTHENTICATE \o hexEncode(ain.cookie) \o S_CRLF
                   r   == sendCommand(w1, cmd, ain.sc)
               IN IF ~r.ok THEN Ret(r.w, FALSE)
                  ELSE Ret(r.w, AuthReplyOk(r.lines))

\* The fold of addOnion over the reply lines: the last ServiceId and
\* PrivateKey fields win.
RECURSIVE ParseAddReply(_, _, _)
ParseAddReply(lines, out_service_id, out_private_key) ==
  IF lines = << >>
  THEN [ out_service_id |-> out_service_id, out_private_key |-> out_private_key ]
  ELSE IF StartsWith(Head(lines), S_ServiceId)
  THEN ParseAddReply(Tail(lines), Substr(Head(lines), Len(S_ServiceID)),
                     out_private_key)
  ELSE IF StartsWith(Head(lines), S_PrivateKey)
  THEN ParseAddReply(Tail(lines), out_service_id,
                     Substr(Head(lines), Len(S_PrivateKey)))
  ELSE ParseAddReply(Tail(lines), out_service_id, out_private_key)

\* "Port=<virtual port>,<ip>:<local port>\r\n"
PortSpec ==
  S_Port \o to_string(config.onion_virtual_port) \o S_comma
    \o config.local_bind_ip \o S_colon \o to_string(config.local_service_port)
    \o S_CRLF

\* The creation command of lines 239-253.
AddCommand ==
  IF config.persistence_mode = "Ephemeral"
  THEN S_ADD_NEW \o PortSpec
  ELSE S_ADD_KEY \o config.provided_private_key_base64 \o S_space \o PortSpec

\* Lines 282-286 storing the key in either persistence mode.
StoreAddedAnyMode(w, out) ==
  [ w EXCEPT !.service_id  = out.out_service_id,
             !.private_key = IF out.out_private_key # << >>
                             THEN out.out_private_key ELSE @ ]

\* What lines 282-286 store.
StoreAdded(w, out) ==
  [ w EXCEPT !.service_id  = out.out_service_id,
             !.private_key = IF config.persistence_mode = "Ephemeral"
                                /\ out.out_private_key # << >>
                             THEN out.out_private_key ELSE @ ]

\* addOnion without the test of sendCommand's result (lines 256-259).
addOnionIgnoreStatus(w, sc) ==
  IF config.enable_stub_mode
  THEN Ret(LogAddr([ w EXCEPT !.service_id = makeDeterministicStubId(config) ],
                   224), TRUE)
  ELSE IF w.control_fd < 0 THEN Ret(w, FALSE)
  ELSE IF config.persistence_mode # "Ephemeral"
          /\ config.provided_private_key_base64 = << >>
  THEN Ret(w, FALSE)
  ELSE LET r   == sendCommand(w, AddCommand, sc)
           out == ParseAddReply(r.lines, << >>, << >>)
       IN IF out.out_service_id = << >> THEN Ret(r.w, FALSE)
          ELSE Ret(LogAddr(StoreAdded(r.w, out), 287), TRUE)

\* addOnion without the test of lines 245-248.
addOnionNoKeyCheck(w, sc) ==
  IF config.enable_stub_mode
  THEN Ret(LogAddr([ w EXCEPT !.service_id = makeDeterministicStubId(config) ],
                   224), TRUE)
  ELSE IF w.control_fd < 0 THEN Ret(w, FALSE)
  ELSE LET r   == sendCommand(w, AddCommand, sc)
           out == ParseAddReply(r.lines, << >>, << >>)
       IN IF ~r.ok THEN Ret(r.w, FALSE)
          ELSE IF out.out_service_id = << >> THEN Ret(r.w, FALSE)
          ELSE Ret(LogAddr(StoreAdded(r.w, out), 287), TRUE)

\* addOnion without the test of lines 277-280.
addOnionNoIdCheck(w, sc) ==
  IF config.enable_stub_mode
  THEN Ret(LogAddr([ w EXCEPT !.service_id = makeDeterministicStubId(config) ],
                   224), TRUE)
  ELSE IF w.control_fd < 0 THEN Ret(w, FALSE)
  ELSE IF config.persistence_mode # "Ephemeral"
          /\ config.provided_private_key_base64 = << >>
  THEN Ret(w, FALSE)
  ELSE LET r   == sendCommand(w, AddCommand, sc)
           out == ParseAddReply(r.lines, << >>, << >>)
       IN IF ~r.ok THEN Ret(r.w, FALSE)
          ELSE Ret(LogAddr(StoreAdded(r.w, out), 287), TRUE)

\* bool HiddenServiceManager::addOnion()
addOnion(w, sc) ==
  IF config.enable_stub_mode
  THEN Ret(LogAddr([ w EXCEPT !.service_id = makeDeterministicStubId(config) ],
                   224), TRUE)
  ELSE IF w.control_fd < 0 THEN Ret(w, FALSE)
  ELSE IF config.persistence_mode # "Ephemeral"
          /\ config.provided_private_key_base64 = << >>
  THEN Ret(w, FALSE)
  ELSE LET r   == sendCommand(w, AddCommand, sc)
           out == ParseAddReply(r.lines, << >>, << >>)
       IN IF ~r.ok THEN Ret(r.w, FALSE)
          ELSE IF out.out_service_id = << >> THEN Ret(r.w, FALSE)
          ELSE Ret(LogAddr(StoreAdded(r.w, out), 287), TRUE)

\* delOnion without the test of lines 304-307.
delOnionNoIdCheck(w, sc) ==
  IF config.enable_stub_mode THEN Ret(LogAddr(w, 299), TRUE)
  ELSE IF w.control_fd < 0 THEN Ret(w, FALSE)
  ELSE LET r == sendCommand(w, S_DEL_ONION \o w.service_id \o S_CRLF, sc)
       IN IF r.w.hung THEN Ret(r.w, FALSE)
          ELSE IF ~r.ok THEN Ret(LogAddr(r.w, 318), FALSE)
          ELSE Ret([ LogAddr(r.w, 322)
                       EXCEPT !.service_id = << >>, !.private_key = << >> ],
                   TRUE)

\* delOnion reporting success when it is not connected.
delOnionNotConnectedOk(w, sc) ==
  IF config.enable_stub_mode THEN Ret(LogAddr(w, 299), TRUE)
  ELSE IF w.service_id = << >> THEN Ret(w, TRUE)
  ELSE IF w.control_fd < 0 THEN Ret(w, TRUE)
  ELSE LET r == sendCommand(w, S_DEL_ONION \o w.service_id \o S_CRLF, sc)
       IN IF r.w.hung THEN Ret(r.w, FALSE)
          ELSE IF ~r.ok THEN Ret(LogAddr(r.w, 318), FALSE)
          ELSE Ret([ LogAddr(r.w, 322)
                       EXCEPT !.service_id = << >>, !.private_key = << >> ],
                   TRUE)

\* bool HiddenServiceManager::delOnion()
delOnion(w, sc) ==
  IF config.enable_stub_mode THEN Ret(LogAddr(w, 299), TRUE)
  ELSE IF w.service_id = << >> THEN Ret(w, TRUE)
  ELSE IF w.control_fd < 0 THEN Ret(w, FALSE)
  ELSE LET cmd == S_DEL_ONION \o w.service_id \o S_CRLF
           r   == sendCommand(w, cmd, sc)
       IN IF r.w.hung THEN Ret(r.w, FALSE)
          ELSE IF ~r.ok THEN Ret(LogAddr(r.w, 318), FALSE)
          ELSE Ret([ LogAddr(r.w, 322)
                       EXCEPT !.service_id = << >>, !.private_key = << >> ],
                   TRUE)

\* The polling loop of waitBootstrapped.  polls lists, for each pass, the
\* socket script of the status query and the time (ms) the query takes;
\* elapsed is now - start before the pass.
RECURSIVE BootstrapLoop(_, _, _)
BootstrapLoop(w, polls, elapsed) ==
  LET p   == Head(polls)
      r   == sendCommand(w, S_GETINFO, p.sc)
      now == elapsed + p.took
  IN IF ~r.ok THEN Ret(r.w, FALSE)
     ELSE IF ReportsBootstrapped(r.lines) THEN Ret(r.w, TRUE)
     ELSE IF now > config.bootstrap_timeout THEN Ret(r.w, FALSE)
     ELSE BootstrapLoop(r.w, Tail(polls), now + SleepMs)

\* bool HiddenServiceManager::waitBootstrapped()
waitBootstrapped(w, polls) ==
  IF config.enable_stub_mode THEN Ret(w, TRUE)
  ELSE IF w.control_fd < 0 THEN Ret(w, FALSE)
  ELSE BootstrapLoop(w, polls, 0)

(* ------------------------ the public operations ---------------------- *)

NoConn == [ gai_ok |-> FALSE, cands |-> << >> ]

NoScript == [ writes |-> << >>, reads |-> << >> ]

NoAuth == [ cookie_open |-> FALSE, cookie |-> << >>, sc |-> NoScript ]

\* SetupStub without the assignment to ready_.
SetupStubReadyUnset(w) ==
  LogAddr([ w EXCEPT !.service_id = makeDeterministicStubId(config) ], 31)

\* SetupStub appending to service_id_ instead of assigning it.
SetupStubAppend(w) ==
  LET sid == w.service_id \o makeDeterministicStubId(config)
  IN LogAddr([ w EXCEPT !.service_id = sid, !.ready = (sid # << >>) ], 31)

\* Lines 29-31: the stub branch of setupHiddenService.
SetupStub(w) ==
  LET sid == makeDeterministicStubId(config)
  IN LogAddr([ w EXCEPT !.service_id = sid, !.ready = (sid # << >>) ], 31)

\* ClearLocal leaving ready_ as it is.
ClearLocalKeepReady(w) ==
  [ w EXCEPT !.service_id = << >>, !.private_key = << >> ]

\* ClearLocal leaving private_key_ as it is.
ClearLocalKeepKey(w) ==
  [ w EXCEPT !.service_id = << >>, !.ready = FALSE ]

\* Lines 75-77 and 94-96: teardownHiddenService clears the local state.
ClearLocal(w) ==
  [ w EXCEPT !.service_id = << >>, !.private_key = << >>, !.ready = FALSE ]

\* Lines 58-64: ready_ = !service_id_.empty(), and the address is logged.
SetReady(w) == LogAddr([ w EXCEPT !.ready = (w.service_id # << >>) ], 64)

\* A step of a public operation has returned r: it is recorded.  A step
\* that is still inside read() has not returned, and nothing is recorded.
StepOf(name, r) == IF r.w.hung THEN r ELSE Ret(Step(r.w, name, r.ret), r.ret)

\* Lines 47-48 and 53-54: closeControl(); return false.  They are not
\* reached while the step before them is still inside read().
CloseAndFail(w) ==
  IF w.hung THEN Ret(w, FALSE)
  ELSE Ret(StepOf("closeControl", closeControl(w)).w, FALSE)

\* bool HiddenServiceManager::setupHiddenService(), with the inputs of the
\* steps it runs: in = [cin, ain, sc].
setupHiddenService(w, in) ==
  IF config.enable_stub_mode
  THEN Ret(SetupStub(w), SetupStub(w).ready)
  ELSE
    LET r1 == StepOf("connectControl", connectControl(w, in.cin))
        r2 == StepOf("authenticate", authenticate(r1.w, in.ain))
        r3 == StepOf("addOnion", addOnion(r2.w, in.sc))
    IN IF ~r1.ret THEN Ret(r1.w, FALSE)
       ELSE IF ~r2.ret THEN CloseAndFail(r2.w)
       ELSE IF ~r3.ret THEN CloseAndFail(r3.w)
       ELSE Ret(SetReady(r3.w), SetReady(r3.w).ready)

\* Lines 83-86: the removal step of teardownHiddenService, with the warning
\* it logs when the removal fails.
WarnIfFailed(r) ==
  IF r.ret \/ r.w.hung THEN r ELSE Ret(LogAddr(r.w, 85), FALSE)

DelStep(w, sc) == WarnIfFailed(StepOf("delOnion", delOnion(w, sc)))

\* Lines 88-97: the disconnect step and the clearing of the local state,
\* after the removal step has returned r1.
CloseAndClear(r1) ==
  IF r1.w.hung THEN r1
  ELSE LET r2 == StepOf("closeControl", closeControl(r1.w))
       IN Ret(ClearLocal(r2.w), r1.ret /\ r2.ret)

\* teardownHiddenService returning as soon as the removal has failed.
teardownHiddenServiceEarlyReturn(w, sc) ==
  IF config.enable_stub_mode
  THEN Ret(ClearLocal(LogAddr(w, 74)), TRUE)
  ELSE
    LET r1 == IF w.service_id # << >>
              THEN DelStep(w, sc)
              ELSE Ret(w, TRUE)
    IN IF ~r1.ret THEN Ret(IF r1.w.hung THEN r1.w ELSE ClearLocal(r1.w), FALSE)
       ELSE Ret(ClearLocal(StepOf("closeControl", closeControl(r1.w)).w), TRUE)

\* bool HiddenServiceManager::teardownHiddenService(), with the socket
\* script of the removal command.
teardownHiddenService(w, sc) ==
  IF config.enable_stub_mode
  THEN Ret(ClearLocal(LogAddr(w, 74)), TRUE)
  ELSE
    CloseAndClear(IF w.service_id # << >> THEN DelStep(w, sc)
                  ELSE Ret(w, TRUE))

(* ----------------------------- environment --------------------------- *)

\* How many sockets the process may hold open.
MaxFds == 2

\* What getaddrinfo and the candidate addresses may do.
ConnInputs(w) ==
  { NoConn }
    \cup { [ gai_ok |-> TRUE, cands |-> c ] :
             c \in { << "sockfail", "connfail" >> } }
    \cup IF Cardinality(w.open_fds) < MaxFds
         THEN { [ gai_ok |-> TRUE, cands |-> c ] :
                  c \in { << "ok" >>, << "connfail", "ok" >> } }
         ELSE { }

R_OK ==
  << "2", "5", "0", " ", "O", "K", "\r", "\n" >>

R_550 ==
  << "5", "5", "0", " ", "N", "o", "\r", "\n" >>

\* A creation reply spelled as the daemon spells it.
R_AddID ==
  S_ServiceID \o << "a", "b" >> \o S_CRLF
    \o S_PrivateKey \o << "k" >> \o S_CRLF \o R_OK

\* Creation replies spelled as line 270 expects them.
R_AddId ==
  S_ServiceId \o << "a", "b" >> \o S_CRLF
    \o S_PrivateKey \o << "k" >> \o S_CRLF \o R_OK

R_AddIdNoKey == S_ServiceId \o << "c", "d" >> \o S_CRLF \o R_OK

R_Boot(n) ==
  << "2", "5", "0", "-", "B", "O", "O", "T", " " >> \o S_PROGRESS \o to_string(n)
    \o << " ", "T", "A", "G" >> \o S_CRLF \o R_OK

Script(writes, reads) == [ writes |-> writes, reads |-> reads ]

\* What the socket may do on each command: the write calls and the reply as
\* read() delivers it.
AuthScripts ==
  { Script(<< >>, << RData(R_OK) >>),
    Script(<< >>, << RData(R_550) >>),
    Script(<< >>, << >>),
    Script(<< WErr >>, << >>),
    Script(<< WEintr, WAccept(4) >>,
           << REintr, RData(SubSeq(R_OK, 1, 7)), RData(SubSeq(R_OK, 8, 8)) >>) }

AddScripts ==
  { Script(<< >>, << RData(R_AddID) >>),
    Script(<< >>, << RData(R_AddId) >>),
    Script(<< >>, << RData(R_AddIdNoKey) >>),
    Script(<< >>, << RData(R_OK) >>),
    Script(<< >>, << RData(R_550) >>),
    Script(<< >>, << RErr >>) }

DelScripts ==
  { Script(<< >>, << RData(R_OK) >>),
    Script(<< >>, << RData(R_550) >>),
    Script(<< >>, << >>) }

Cookie == << 10, 255 >>

AuthInputs ==
  { NoAuth, [ cookie_open |-> TRUE, cookie |-> << >>, sc |-> NoScript ] }
    \cup { [ cookie_open |-> TRUE, cookie |-> Cookie, sc |-> s ] : s \in AuthScripts }

\* What a pass of waitBootstrapped may meet: the socket script of the
\* status query and the time in ms from the clock reading before the pass
\* to the one after the reply (never zero).
PollInputs ==
  { [ sc |-> Script(<< >>, << RData(R_Boot(50)) >>), took |-> 1 ],
    [ sc |-> Script(<< >>, << RData(R_Boot(50)) >>), took |-> SleepMs + 1 ],
    [ sc |-> Script(<< >>, << RData(R_Boot(100)) >>), took |-> 1 ],
    [ sc |-> Script(<< >>, << RData(R_550) >>), took |-> 1 ] }

MinTook == CHOOSE t \in { p.took : p \in PollInputs } :
             \A p \in PollInputs : t <= p.took

\* The passes waitBootstrapped can make before its timeout check must fail:
\* the least k with (k - 1) * (SleepMs + MinTook) + MinTook > timeout.
PollsNeeded ==
  1 + ((config.bootstrap_timeout + SleepMs + MinTook - 1) \div (SleepMs + MinTook))

PollSeqs == [ 1..PollsNeeded -> PollInputs ]

(* ------------------------------ actions ------------------------------ *)

NoPair == [ cfg |-> << >>, ids |-> << >> ]

\* peer: the reply lines the peer sent; cookie: the bytes of the cookie file;
\* lines: the reply lines sendCommand returned; reads and writes: what the
\* read() and write() calls did; file: what became of the cookie file
\* ("missing": it did not open, "read": it was read); polls: what the
\* passes of waitBootstrapped met; out: the address the integration hook
\* reported.
NoXfer ==
  [ peer |-> << >>, cookie |-> << >>, lines |-> << >>, reads |-> << >>,
    writes |-> << >>, file |-> "", polls |-> << >>, out |-> << >> ]

\* No SetupStructure and no ConfigureTor: the manager is used on its own.
NoServer == [ op |-> "none" ]

NoTor == [ op |-> "none" ]

Init ==
  /\ config \in Configs
  /\ control_fd = -1
  /\ service_id = << >>
  /\ private_key = << >>
  /\ ready = FALSE
  /\ open_fds = { }
  /\ conn_authed = { }
  /\ conn_booted = { }
  /\ io = << >>
  /\ sent = << >>
  /\ steps = << >>
  /\ call = [ op |-> "none", ret |-> TRUE ]
  /\ prev = "other"
  /\ first_addr = << >>
  /\ pf = NoPair
  /\ xfer = NoXfer
  /\ log = << >>
  /\ blocked = FALSE
  /\ srv = NoServer
  /\ tor = NoTor

\* A call returns, or waits in read() for ever: the manager and the
\* environment take the values the call left, and the call is recorded with
\* what it was given (x).  What the daemon knows of a socket is kept only
\* while control_fd_ refers to it.  The manager is used by one thread: while
\* a call has not returned no other call starts.
FinishWith(r, op, x) ==
  /\ ~blocked
  /\ control_fd' = r.w.control_fd
  /\ service_id' = r.w.service_id
  /\ private_key' = r.w.private_key
  /\ ready' = r.w.ready
  /\ open_fds' = r.w.open_fds
  /\ conn_authed' = r.w.conn_authed \cap { r.w.control_fd }
  /\ conn_booted' = r.w.conn_booted \cap { r.w.control_fd }
  /\ io' = r.w.io
  /\ sent' = r.w.sent
  /\ steps' = r.w.steps
  /\ call' = [ op |-> op, ret |-> r.ret ]
  /\ prev' = IF call.op # op THEN "other"
             ELSE IF call.ret THEN "same_ok" ELSE "same_failed"
  /\ first_addr' = IF op = "setupHiddenService" /\ r.ret /\ first_addr = << >>
                   THEN onionAddressOf(r.w.service_id) ELSE first_addr
  /\ xfer' = x
  /\ log' = r.w.log
  /\ blocked' = r.w.hung
  /\ UNCHANGED << config, pf, srv, tor >>

Finish(r, op) == FinishWith(r, op, NoXfer)

CallSetup ==
  \E cin \in ConnInputs(World) :
    \E ain \in IF connectControl(World, cin).ret /\ ~config.enable_stub_mode
               THEN AuthInputs ELSE { NoAuth } :
      \E sc \in IF ain # NoAuth
                   /\ authenticate(connectControl(World, cin).w, ain).ret
                THEN AddScripts ELSE { NoScript } :
        Finish(setupHiddenService(World, [ cin |-> cin, ain |-> ain, sc |-> sc ]),
               "setupHiddenService")

CallTeardown ==
  \E sc \in IF service_id # << >> /\ control_fd >= 0 /\ ~config.enable_stub_mode
            THEN DelScripts ELSE { NoScript } :
    Finish(teardownHiddenService(World, sc), "teardownHiddenService")

CallConnect ==
  \E cin \in ConnInputs(World) :
    Finish(connectControl(World, cin), "connectControl")

CallAuthenticate ==
  \E ain \in IF authenticate(World, NoAuth).w.io # << >>
              THEN AuthInputs ELSE { NoAuth } :
    Finish(authenticate(World, ain), "authenticate")

CallWaitBootstrapped ==
  \E polls \in IF control_fd >= 0 /\ ~config.enable_stub_mode
                THEN PollSeqs ELSE { << >> } :
    Finish(waitBootstrapped(World, polls), "waitBootstrapped")

CallClose == Finish(closeControl(World), "closeControl")

Next ==
  \/ CallSetup
  \/ CallTeardown
  \/ CallConnect
  \/ CallAuthenticate
  \/ CallWaitBootstrapped
  \/ CallClose

Spec == Init /\ [][Next]_vars

(* --------------- the operations called one at a time ----------------- *)
\* Simulation mode: each of the nine operations, the private ones too, is
\* called on its own, in any order.

Commands ==
  { S_GETINFO, S_AUTHENTICATE \o hexEncode(Cookie) \o S_CRLF,
    S_DEL_ONION \o S_stub \o S_CRLF }

SendResult(r) == Ret(r.w, r.ok)

\* The bytes of a reply: each line followed by CRLF.
RECURSIVE JoinLines(_)
JoinLines(L) ==
  IF L = << >> THEN << >> ELSE Head(L) \o S_CRLF \o JoinLines(Tail(L))

\* The socket takes the command in one write and delivers the reply L in
\* one read; with no reply the peer has closed.
Delivered(L) ==
  IF L = << >> THEN NoScript ELSE Script(<< >>, << RData(JoinLines(L)) >>)

GivenPeer(L) == [ NoXfer EXCEPT !.peer = L ]

L_550 == << "5", "5", "0", " ", "N", "o" >>

L_A == << "2", "5", "0", "-", "A", "=", "b" >>

L_650 == << "6", "5", "0", "-", "x" >>

\* The replies to a creation command: the fields spelled as the daemon
\* spells them (ServiceID) and as line 270 expects them (ServiceId), with
\* and without a key, and replies that end in a failure line.
AddReplies ==
  { << S_ServiceID \o << "a", "b" >>, S_PrivateKey \o << "k" >>, S_250_OK >>,
    << S_ServiceID \o << "c", "d" >>, S_PrivateKey \o << "k", "2" >>, S_250_OK >>,
    << S_ServiceID \o << "a", "b" >>, S_250_OK >>,
    << S_ServiceId \o << "a", "b" >>, S_PrivateKey \o << "k" >>, S_250_OK >>,
    << S_ServiceId \o << "c", "d" >>, S_250_OK >>,
    << S_250_OK >>,
    << L_550 >>,
    << S_ServiceId \o << "z", "z" >>, S_PrivateKey \o << "k" >>, L_550 >> }

DelReplies == { << S_250_OK >>, << L_550 >>, << >> }

\* A reply is drawn only when the call gets as far as the socket.
CallAddOnion ==
  \E L \in IF addOnion(World, NoScript).w.io # << >> THEN AddReplies
            ELSE { << >> } :
    FinishWith(addOnion(World, Delivered(L)), "addOnion", GivenPeer(L))

CallDelOnion ==
  \E L \in IF delOnion(World, NoScript).w.io # << >> THEN DelReplies
            ELSE { << >> } :
    FinishWith(delOnion(World, Delivered(L)), "delOnion", GivenPeer(L))

CallSendCommand ==
  \E cmd \in Commands, sc \in AuthScripts :
    Finish(SendResult(sendCommand(World, cmd, sc)), "sendCommand")

InitStub == Init /\ config.enable_stub_mode

NextStub ==
  \/ CallSetup
  \/ CallTeardown
  \/ CallConnect
  \/ CallAuthenticate
  \/ CallWaitBootstrapped
  \/ CallClose
  \/ CallAddOnion
  \/ CallDelOnion
  \/ CallSendCommand

SpecStub == InitStub /\ [][NextStub]_vars

\* Real mode: the steps of setup and teardown called one at a time, in any
\* order, with teardown.
InitSteps == Init /\ ~config.enable_stub_mode

NextSteps ==
  \/ CallConnect
  \/ CallClose
  \/ CallAuthenticate
  \/ CallAddOnion
  \/ CallDelOnion
  \/ CallTeardown

SpecSteps == InitSteps /\ [][NextSteps]_vars

(* ---------------- sendCommand and the cookie encoding ---------------- *)

\* How many continuation lines a reply has at most.
MaxContinuation == 2

\* How many bytes the cookie file has at most.
MaxCookie == 2

ContinuationLines ==
  { << "2", "5", "0", "-", "A", "=", "b" >>, << "6", "5", "0", "-", "x" >> }

FinalLines == { S_250_OK, L_550, << "4", "5", "1", " " >> }

\* Zero or more continuation lines, then one final line.
SendReplies ==
  { c \o << f >> :
      c \in UNION { [ 1..n -> ContinuationLines ] : n \in 0..MaxContinuation },
      f \in FinalLines }

RECURSIVE Bytewise(_)
Bytewise(stream) ==
  IF stream = << >> THEN << >>
  ELSE << RData(<< Head(stream) >>) >> \o Bytewise(Tail(stream))

\* Where a reply is cut in two: inside the status code of its first line,
\* between the CR and the LF of its first line, and before and inside the
\* CRLF of its last line.
Cuts(L) ==
  { 2, Len(Head(L)) + 1, Len(JoinLines(L)) - 2, Len(JoinLines(L)) - 1 }

\* How read() may deliver the reply: in one piece, byte by byte, and in two
\* pieces with an interrupted read between them.
Chunkings(L) ==
  LET stream == JoinLines(L)
  IN { << RData(stream) >>, Bytewise(stream) }
       \cup { << RData(SubSeq(stream, 1, k)), REintr,
                 RData(SubSeq(stream, k + 1, Len(stream))) >> : k \in Cuts(L) }

CallSendReply ==
  \E L \in IF control_fd >= 0 THEN SendReplies ELSE { << S_250_OK >> } :
    \E reads \in Chunkings(L) :
      LET r == sendCommand(World, S_GETINFO, Script(<< >>, reads))
      IN FinishWith(SendResult(r), "sendCommand",
                    [ NoXfer EXCEPT !.peer = L, !.lines = r.lines ])

ByteSamples == { 0, 9, 10, 15, 16, 160, 255 }

Cookies == UNION { [ 1..n -> ByteSamples ] : n \in 1..MaxCookie }

CallAuthenticateCookie ==
  \E c \in IF control_fd >= 0 THEN Cookies ELSE { Cookie } :
    FinishWith(authenticate(World, [ cookie_open |-> TRUE, cookie |-> c,
                                     sc |-> Delivered(<< S_250_OK >>) ]),
               "authenticate",
               [ NoXfer EXCEPT !.cookie = c, !.file = "read",
                               !.peer = << S_250_OK >> ])

L_251 == << "2", "5", "1", " ", "O", "K" >>

L_550c == << "5", "5", "0", "-", "x" >>

\* The replies to AUTHENTICATE: zero or more continuation lines, then one
\* final line; success codes other than 250 are among them.
AuthReplies ==
  { << S_250_OK >>, << L_251 >>, << L_550 >>, << << "4", "5", "1", " " >> >>,
    << L_A, S_250_OK >>, << L_650, S_250_OK >>, << L_650, L_251 >>,
    << L_550c, S_250_OK >>, << L_A, L_251 >>, << L_A, L_550 >> }

\* authenticate on a cookie file that is read, with any of the replies,
\* delivered in one piece or byte by byte.
CallAuthenticateReply ==
  \E L \in IF control_fd >= 0 /\ config.auth_mode = "Cookie"
            THEN AuthReplies ELSE { << S_250_OK >> } :
    \E reads \in { Delivered(L).reads, Bytewise(JoinLines(L)) } :
      FinishWith(authenticate(World, [ cookie_open |-> TRUE, cookie |-> Cookie,
                                       sc |-> Script(<< >>, reads) ]),
                 "authenticate",
                 [ NoXfer EXCEPT !.cookie = Cookie, !.file = "read",
                                 !.peer = L, !.reads = reads ])

\* authenticate on a cookie file that does not open, and on an empty one.
CallAuthenticateFile ==
  \E open \in BOOLEAN :
    FinishWith(authenticate(World, [ cookie_open |-> open, cookie |-> << >>,
                                     sc |-> Delivered(<< S_250_OK >>) ]),
               "authenticate",
               [ NoXfer EXCEPT !.file = IF open THEN "read" ELSE "missing",
                               !.peer = << S_250_OK >> ])

\* A manager in real mode that connects once; sendCommand is called on it
\* before the connection, on it, and after closeControl.
InitSend == Init /\ config = Cfg(FALSE, "Cookie", "Ephemeral", << >>)

CallConnectFirst == open_fds = { } /\ CallConnect

NextSend ==
  \/ CallConnectFirst
  \/ CallClose
  \/ CallSendReply

SpecSend == InitSend /\ [][NextSend]_vars

\* A manager in real mode, in cookie mode or in password mode, with
\* authenticate called on cookie files of any content, on a missing and on
\* an empty cookie file, and with any reply.
InitCookie ==
  /\ Init
  /\ config \in { Cfg(FALSE, "Cookie", "Ephemeral", << >>),
                  Cfg(FALSE, "Password", "Ephemeral", << >>) }

NextCookie ==
  \/ CallConnectFirst
  \/ CallClose
  \/ CallAuthenticateCookie
  \/ CallAuthenticateReply
  \/ CallAuthenticateFile

SpecCookie == InitCookie /\ [][NextCookie]_vars

(* ------------------- sendCommand on any byte stream ------------------ *)

\* What the peer may send: well-formed replies, replies with lines behind
\* the first final line, replies with lines that are no reply lines, and
\* streams that end before a final line.
StreamLines ==
  { << S_250_OK >>, << L_A, S_250_OK >>, << L_550 >>,
    << L_550, S_250_OK >>, << S_250_OK, L_550 >>, << S_250_OK, L_650 >>,
    << << "x", "y", "z" >>, S_250_OK >>, << << "2", "5" >>, S_250_OK >>,
    << << "2", "a", "0", " ", "x" >>, L_550 >>,
    << L_A >>, << L_A, L_650 >>, << >> }

\* The positions behind the CR and behind the LF of each line but the end of
\* the stream.
RECURSIVE LineCuts(_, _)
LineCuts(L, before) ==
  IF L = << >> THEN { }
  ELSE LET end == before + Len(Head(L)) + 2
       IN { end - 1 } \cup (IF Tail(L) = << >> THEN { } ELSE { end })
            \cup LineCuts(Tail(L), end)

\* How read() may deliver the stream: in one piece, byte by byte, and cut in
\* two at a line end or between a CR and its LF.  Then the peer closes.
StreamChunkings(L) ==
  LET stream == JoinLines(L)
  IN IF L = << >> THEN { << >> }
     ELSE { << RData(stream) >>, Bytewise(stream) }
            \cup { << RData(SubSeq(stream, 1, k)),
                      RData(SubSeq(stream, k + 1, Len(stream))) >> :
                    k \in LineCuts(L, 0) }

CallSendStream ==
  \E L \in IF control_fd >= 0 THEN StreamLines ELSE { << S_250_OK >> } :
    \E reads \in StreamChunkings(L) :
      LET r == sendCommand(World, S_GETINFO, Script(<< >>, reads))
      IN FinishWith(SendResult(r), "sendCommand",
                    [ NoXfer EXCEPT !.peer = L, !.lines = r.lines,
                                    !.reads = reads ])

\* What the write() calls may do with the 32 bytes of the command: short
\* writes, interrupted writes, and an error before, amid and behind the
\* command.
WritePatterns ==
  { << >>, << WAccept(1) >>, << WAccept(5), WEintr, WAccept(3) >>,
    << WEintr, WEintr >>, << WErr >>, << WAccept(4), WErr >>,
    << WEintr, WAccept(31), WErr >>, << WAccept(32), WErr >> }

CallSendWrites ==
  \E writes \in IF control_fd >= 0 THEN WritePatterns ELSE { << >> } :
    LET reads == << RData(JoinLines(<< S_250_OK >>)) >>
        r     == sendCommand(World, S_GETINFO, Script(writes, reads))
    IN FinishWith(SendResult(r), "sendCommand",
                  [ NoXfer EXCEPT !.peer = << S_250_OK >>, !.lines = r.lines,
                                  !.reads = reads, !.writes = writes ])

NextStream ==
  \/ CallConnectFirst
  \/ CallClose
  \/ CallSendStream
  \/ CallSendWrites

SpecStream == InitSend /\ [][NextStream]_vars

(* ------------------------ the integration hook ----------------------- *)
\* integrationTestAddOnion is declared and documented in the header and
\* called by TorUnitTests; the sources hold no definition of it.  It is
\* modelled from its documentation, over the steps of the manager.

Base32 ==
  { "a", "b", "c", "d", "e", "f", "g", "h", "i", "j", "k", "l", "m", "n", "o", "p",
    "q", "r", "s", "t", "u", "v", "w", "x", "y", "z", "2", "3", "4", "5", "6", "7" }

\* The length of the identifier of a v3 address.
V3Len == 56

\* The address test of TorUnitTests::testAddOnionReal:
\* ^[a-z2-7]{56}\.onion$
IsV3Address(addr) ==
  /\ Len(addr) = V3Len + Len(S_onion)
  /\ \A i \in 1..V3Len : addr[i] \in Base32
  /\ Substr(addr, V3Len) = S_onion

\* What the hook does after a failed step: the documentation leaves open
\* whether it closes the connection.
HookFail(w, cleanup) ==
  IF w.hung THEN Ret(w, FALSE)
  ELSE IF cleanup THEN Ret(StepOf("closeControl", closeControl(w)).w, FALSE)
  ELSE Ret(w, FALSE)

\* The hook returns r and reports the address out.
Reporting(r, out) == [ w |-> r.w, ret |-> r.ret, out |-> out ]

\* The hook from its last step on: r5 is what the removal returned, out
\* the address the creation reported.
HookClose(r5, in, out) ==
  IF ~r5.ret THEN Reporting(HookFail(r5.w, in.cleanup), out)
  ELSE Reporting(Ret(StepOf("closeControl", closeControl(r5.w)).w,
                     IsV3Address(out)), out)

\* The hook from the removal on: r4 is what the creation returned.
HookRemove(r4, in) ==
  IF ~r4.ret THEN Reporting(HookFail(r4.w, in.cleanup), << >>)
  ELSE HookClose(StepOf("delOnion", delOnion(r4.w, in.del)), in,
                 onionAddressOf(r4.w.service_id))

\* The hook from the creation on: r3 is what waitBootstrapped returned.
HookCreate(r3, in) ==
  IF ~r3.ret THEN Reporting(HookFail(r3.w, in.cleanup), << >>)
  ELSE HookRemove(StepOf("addOnion", addOnion(r3.w, in.add)), in)

\* The hook from the wait on: r2 is what authenticate returned.
HookWait(r2, in) ==
  IF ~r2.ret THEN Reporting(HookFail(r2.w, in.cleanup), << >>)
  ELSE HookCreate(StepOf("waitBootstrapped", waitBootstrapped(r2.w, in.polls)),
                  in)

\* The hook from the authentication on: r1 is what connectControl returned.
HookAuthenticate(r1, in) ==
  IF ~r1.ret THEN Reporting(Ret(r1.w, FALSE), << >>)
  ELSE HookWait(StepOf("authenticate", authenticate(r1.w, in.ain)), in)

\* bool HiddenServiceManager::integrationTestAddOnion(out_onion), with the
\* inputs of its steps: in = [cin, ain, polls, add, del, cleanup].
integrationTestAddOnion(w, in) ==
  HookAuthenticate(StepOf("connectControl", connectControl(w, in.cin)), in)

Id56a == [ i \in 1..V3Len |-> IF i % 2 = 1 THEN "a" ELSE "7" ]

Id56z == [ i \in 1..V3Len |-> IF i % 3 = 0 THEN "z" ELSE "2" ]

\* An identifier of the right length with a character outside a-z2-7.
Id56bad == [ i \in 1..V3Len |-> IF i = V3Len THEN "1" ELSE "b" ]

HookAddReplies ==
  { << S_ServiceId \o Id56a, S_PrivateKey \o << "k" >>, S_250_OK >>,
    << S_ServiceId \o Id56z, S_250_OK >>,
    << S_ServiceId \o Id56bad, S_250_OK >>,
    << S_ServiceId \o << "a", "b" >>, S_250_OK >>,
    << S_ServiceID \o Id56a, S_PrivateKey \o << "k" >>, S_250_OK >>,
    << L_550 >> }

HookPolls ==
  { << [ sc |-> Script(<< >>, << RData(R_Boot(100)) >>), took |-> 1 ] >>,
    << [ sc |-> Script(<< >>, << RData(R_Boot(50)) >>), took |-> 1 ],
       [ sc |-> Script(<< >>, << RData(R_Boot(100)) >>), took |-> 1 ] >>,
    << [ sc |-> Script(<< >>, << RData(R_Boot(50)) >>),
         took |-> DefaultConfig.bootstrap_timeout + 1 ] >>,
    << [ sc |-> Script(<< >>, << RData(R_550) >>), took |-> 1 ] >> }

\* The hook returns r: the reply to its creation command and the address
\* it reported are recorded.
FinishHook(r, add) ==
  FinishWith(r, "integrationTestAddOnion",
             [ NoXfer EXCEPT !.peer = add, !.out = r.out ])

HookInput(cin, ain, polls, add, del, cleanup) ==
  [ cin |-> cin, ain |-> ain, polls |-> polls, add |-> Delivered(add),
    del |-> Delivered(del), cleanup |-> cleanup ]

\* Which inputs let the hook go on to its next step: further inputs are
\* drawn only then.
ConnGoesOn(cin) ==
  cin.gai_ok /\ \E i \in 1..Len(cin.cands) : cin.cands[i] = "ok"

AuthGoesOn(ain) == ain.cookie_open /\ ain.sc = Delivered(<< S_250_OK >>)

PollsGoOn(polls) ==
  /\ polls # << >>
  /\ polls[Len(polls)].sc.reads = << RData(R_Boot(100)) >>

AddGoesOn(add) == add # << >> /\ StartsWith(add[1], S_ServiceId)

HookAuthInputs ==
  { NoAuth,
    [ cookie_open |-> TRUE, cookie |-> Cookie, sc |-> Delivered(<< S_250_OK >>) ],
    [ cookie_open |-> TRUE, cookie |-> Cookie, sc |-> Delivered(<< L_550 >>) ] }

\* The hook is called as TorUnitTests::testAddOnionReal calls it: on a
\* manager that has opened no socket.
CallIntegrationTest ==
  /\ open_fds = { }
  /\ \E cin \in ConnInputs(World), cleanup \in BOOLEAN :
       \E ain \in IF ConnGoesOn(cin) /\ ~config.enable_stub_mode
                  THEN HookAuthInputs ELSE { NoAuth } :
         \E polls \in IF AuthGoesOn(ain) THEN HookPolls ELSE { << >> } :
           \E add \in IF PollsGoOn(polls) THEN HookAddReplies ELSE { << >> } :
             \E del \in IF AddGoesOn(add) THEN DelReplies ELSE { << >> } :
               FinishHook(integrationTestAddOnion(
                            World, HookInput(cin, ain, polls, add, del, cleanup)),
                          add)

\* The managers of TorUnitTests: a default Config in which only
\* enable_stub_mode is assigned.
InitHook ==
  /\ config \in { [ DefaultConfig EXCEPT !.enable_stub_mode = FALSE ],
                  [ DefaultConfig EXCEPT !.enable_stub_mode = TRUE ] }
  /\ control_fd = -1
  /\ service_id = << >>
  /\ private_key = << >>
  /\ ready = FALSE
  /\ open_fds = { }
  /\ conn_authed = { }
  /\ conn_booted = { }
  /\ io = << >>
  /\ sent = << >>
  /\ steps = << >>
  /\ call = [ op |-> "none", ret |-> TRUE ]
  /\ prev = "other"
  /\ first_addr = << >>
  /\ pf = NoPair
  /\ xfer = NoXfer
  /\ log = << >>
  /\ blocked = FALSE
  /\ srv = NoServer
  /\ tor = NoTor

NextHook ==
  \/ CallIntegrationTest
  \/ CallTeardown

SpecHook == InitHook /\ [][NextHook]_vars

(* ----------------------------- the log ------------------------------ *)

\* Creation replies in which a line follows the final line.
TrailingReplies ==
  { << S_ServiceId \o << "a", "b" >>, S_250_OK, S_PrivateKey \o << "k" >> >>,
    << S_ServiceId \o << "c", "d" >>, S_PrivateKey \o << "k" >>, S_250_OK,
       L_650 >> }

\* addOnion on a reply that read() delivers in one piece.
CallAddOnionStream ==
  \E L \in IF addOnion(World, NoScript).w.io # << >> THEN TrailingReplies
            ELSE { << >> } :
    FinishWith(addOnion(World, Delivered(L)), "addOnion", GivenPeer(L))

\* A manager in stub mode that has its key from its configuration, and a
\* manager in real mode that receives its key from the daemon.
InitLog ==
  /\ Init
  /\ config \in { Cfg(TRUE, "None", "ProvidedKey", S_key),
                  Cfg(FALSE, "Cookie", "Ephemeral", << >>) }

\* Every operation that logs, in both modes, in any order.
NextLog ==
  \/ CallSetup
  \/ CallTeardown
  \/ CallConnectFirst
  \/ CallAuthenticate
  \/ CallClose
  \/ CallAddOnion
  \/ CallAddOnionStream
  \/ CallDelOnion
  \/ CallSendCommand

SpecLog == InitLog /\ [][NextLog]_vars

(* ------------------ waitBootstrapped and a slow daemon --------------- *)

\* What a pass may meet besides PollInputs: an answer that takes three
\* polling intervals, and a daemon that takes the query and sends nothing.
WaitInputs ==
  PollInputs
    \cup { [ sc |-> Script(<< >>, << RData(R_Boot(50)) >>), took |-> 3 * SleepMs ],
           [ sc |-> Script(<< >>, << RBlock >>), took |-> 3 * SleepMs ] }

CallWaitPolls ==
  \E polls \in IF control_fd >= 0 THEN [ 1..PollsNeeded -> WaitInputs ]
                ELSE { << >> } :
    FinishWith(waitBootstrapped(World, polls), "waitBootstrapped",
               [ NoXfer EXCEPT !.polls = polls ])

NextWait ==
  \/ CallConnectFirst
  \/ CallClose
  \/ CallWaitPolls

SpecWait == InitSend /\ [][NextWait]_vars

(* ------------------ the fields of a creation reply ------------------ *)

\* Successful creation replies without a usable identifier: an identifier
\* field with no value, a key and no identifier, both, and another field.
FieldReplies ==
  { << S_ServiceId, S_250_OK >>,
    << S_PrivateKey \o << "q" >>, S_250_OK >>,
    << S_ServiceId, S_PrivateKey \o << "q" >>, S_250_OK >>,
    << S_ServiceID, S_250_OK >>,
    << L_A, S_250_OK >> }

CallAddOnionFields ==
  \E L \in IF addOnion(World, NoScript).w.io # << >> THEN FieldReplies
            ELSE { << >> } :
    FinishWith(addOnion(World, Delivered(L)), "addOnion", GivenPeer(L))

\* A manager in real mode, creating and removing services on one
\* connection, with a key of its own or without.
InitAdd ==
  /\ Init
  /\ config \in { Cfg(FALSE, "Cookie", "Ephemeral", << >>),
                  Cfg(FALSE, "Cookie", "ProvidedKey", S_key) }

NextAdd ==
  \/ CallConnectFirst
  \/ CallClose
  \/ CallAddOnion
  \/ CallAddOnionFields
  \/ CallDelOnion

SpecAdd == InitAdd /\ [][NextAdd]_vars

(* ----------------- the replies to the status query ------------------ *)

\* A status line that reports progress n.
BootLine(n) ==
  << "2", "5", "0", "-", "B", "O", "O", "T", " " >> \o S_PROGRESS \o to_string(n)
    \o << " ", "T", "A", "G" >>

\* Replies to GETINFO status/bootstrap-phase: progress below, at and above
\* 100, the status line behind another line, the token on the final line of
\* a successful and of a failed reply, a reply without the token, a failed
\* reply, and no reply.
StatusReplies ==
  { << BootLine(50), S_250_OK >>,
    << BootLine(99), S_250_OK >>,
    << BootLine(100), S_250_OK >>,
    << BootLine(120), S_250_OK >>,
    << L_A, BootLine(100), S_250_OK >>,
    << << "2", "5", "0", " " >> \o S_PROGRESS \o to_string(100) >>,
    << << "5", "5", "0", " " >> \o S_PROGRESS \o to_string(100) >>,
    << S_250_OK >>,
    << L_550 >>,
    << >> }

\* A pass of waitBootstrapped that meets the reply L and takes took ms.
StatusPoll(L, took) == [ sc |-> Delivered(L), took |-> took, lines |-> L ]

\* Every reply arrives at once; a reply of progress 50 may also arrive
\* after the timeout.
StatusPolls ==
  { StatusPoll(L, 1) : L \in StatusReplies }
    \cup { StatusPoll(<< BootLine(50), S_250_OK >>, SleepMs + 1) }

CallWaitStatus ==
  \E polls \in IF control_fd >= 0 THEN [ 1..PollsNeeded -> StatusPolls ]
                ELSE { << >> } :
    FinishWith(waitBootstrapped(World, polls), "waitBootstrapped",
               [ NoXfer EXCEPT !.polls = polls ])

NextBoot ==
  \/ CallConnectFirst
  \/ CallClose
  \/ CallWaitStatus

SpecBoot == InitSend /\ [][NextBoot]_vars

(* ------------------- SetupStructure::validate ------------------------ *)

P_root == << "/" >>

P_dot == << "." >>

kMinPort == 1

kMaxPort == 65535

\* The path as the file system resolves it: repeated slashes count once,
\* and trailing slashes do not count on a directory.
RECURSIVE Canon(_)
Canon(p) ==
  IF Len(p) >= 2 /\ p[1] = "/" /\ p[2] = "/" THEN Canon(Tail(p))
  ELSE IF Len(p) >= 2 /\ p[Len(p)] = "/" THEN Canon(SubSeq(p, 1, Len(p) - 1))
  ELSE IF Len(p) >= 2 THEN << p[1] >> \o Canon(Tail(p))
  ELSE p

\* The greatest member of a set of naturals, 0 for the empty set.
Greatest(S) == IF S = { } THEN 0 ELSE CHOOSE i \in S : \A j \in S : j <= i

\* The lambda parentDirOf of lines 93-103.
parentDirOf(p) ==
  LET end   == Greatest({ i \in 1..Len(p) : p[i] # "/" })
      slash == Greatest({ j \in 1..end : p[j] = "/" })
  IN IF p = << >> THEN P_dot
     ELSE IF end = 0 THEN P_root
     ELSE IF slash = 0 THEN P_dot
     ELSE IF slash = 1 THEN P_root
     ELSE SubSeq(p, 1, slash - 1)

\* stat() and access() find the regular file path p names: a path that ends
\* in a slash names a directory only (ENOTDIR on a file).
NamesFile(fs, p) ==
  p # << >> /\ p[Len(p)] # "/" /\ Canon(p) \in fs.files

\* The lambdas of lines 82-84, 108-113 and 135-138 on the file system fs:
\* its directories, its regular files, and the paths access() grants for
\* writing and for executing.
isWritable(fs, path) ==
  (Canon(path) \in fs.dirs \/ NamesFile(fs, path)) /\ Canon(path) \in fs.w

dirExistsLocal(fs, path) == Canon(path) \in fs.dirs

isExecutableFileLocal(fs, p) == NamesFile(fs, p) /\ Canon(p) \in fs.x

\* validate() returns false with the message msg + path in out_error.  A
\* message is kept as its parts: texts at the odd places, paths and numbers
\* (character sequences) at the even ones.
Refuse(msg, path, calls) ==
  [ ret |-> FALSE, out_error |-> << msg, path >>, calls |-> calls ]

\* The checks of a parent directory, lines 163-187: the system calls they
\* make on the parent of path p, and whether the parent passes them.
ParentCalls(fs, p) ==
  IF dirExistsLocal(fs, parentDirOf(p)) THEN << "stat", "access" >>
  ELSE << "stat" >>

ParentOk(fs, p) ==
  dirExistsLocal(fs, parentDirOf(p)) /\ isWritable(fs, parentDirOf(p))

\* The system calls of the executable check, lines 117-123.
BinaryCalls(m, fs) ==
  IF m.torBinaryPath = << >> THEN << >>
  ELSE IF NamesFile(fs, m.torBinaryPath) THEN << "stat", "access" >>
  ELSE << "stat" >>

\* The checks of lines 163-187 on the cookie file and the log file, after
\* the system calls c.
validateFiles(m, fs, c, out_error) ==
  LET cc == IF m.cookieAuthFile = << >> THEN c
            ELSE c \o ParentCalls(fs, m.cookieAuthFile)
      cl == IF m.logFile = << >> THEN cc ELSE cc \o ParentCalls(fs, m.logFile)
  IN IF m.cookieAuthFile # << >>
        /\ ~dirExistsLocal(fs, parentDirOf(m.cookieAuthFile))
     THEN Refuse("CookieAuthFile parent directory does not exist: ",
                 parentDirOf(m.cookieAuthFile), cc)
     ELSE IF m.cookieAuthFile # << >> /\ ~ParentOk(fs, m.cookieAuthFile)
     THEN Refuse("CookieAuthFile parent directory is not writable: ",
                 parentDirOf(m.cookieAuthFile), cc)
     ELSE IF m.logFile # << >> /\ ~dirExistsLocal(fs, parentDirOf(m.logFile))
     THEN Refuse("Log file parent directory does not exist: ",
                 parentDirOf(m.logFile), cl)
     ELSE IF m.logFile # << >> /\ ~ParentOk(fs, m.logFile)
     THEN Refuse("Log file parent directory is not writable: ",
                 parentDirOf(m.logFile), cl)
     ELSE [ ret |-> TRUE, out_error |-> out_error, calls |-> cl ]

\* The checks of lines 128-158 on the data directory, after the system
\* calls c.
validateDataDirectory(m, fs, c, out_error) ==
  LET parent == parentDirOf(m.dataDirectory)
  IN IF m.dataDirectory = << >>
     THEN Refuse("DataDirectory path is empty; provide a writable directory path for Tor state.",
                 << >>, c)
     ELSE IF dirExistsLocal(fs, m.dataDirectory)
     THEN IF ~isWritable(fs, m.dataDirectory)
          THEN Refuse("DataDirectory exists but is not writable: ",
                      m.dataDirectory, c \o << "stat", "access" >>)
          ELSE validateFiles(m, fs, c \o << "stat", "access" >>, out_error)
     ELSE IF ~dirExistsLocal(fs, parent)
     THEN Refuse("DataDirectory does not exist and its parent directory is missing: ",
                 parent, c \o << "stat", "stat" >>)
     ELSE IF ~isWritable(fs, parent)
     THEN Refuse("DataDirectory does not exist and its parent directory is not writable: ",
                 parent, c \o << "stat", "stat", "access" >>)
     ELSE IF m.dataDirectory = P_root
     THEN Refuse("DataDirectory cannot be '/'. Choose a project-local path.",
                 << >>, c \o << "stat", "stat", "access" >>)
     ELSE validateFiles(m, fs, c \o << "stat", "stat", "access" >>, out_error)

\* bool SetupStructure::validate(std::string& out_error) const, on the
\* members m and the file system fs: what it returns, what out_error holds
\* afterwards (on success what the caller passed), and the system calls it
\* makes.
validate(m, fs, out_error) ==
  IF m.controlPort < kMinPort \/ m.controlPort > kMaxPort
  THEN [ ret |-> FALSE,
         out_error |-> << "ControlPort ", to_string(m.controlPort),
                          " is out of range [", to_string(kMinPort),
                          ", ", to_string(kMaxPort), "]." >>,
         calls |-> << >> ]
  ELSE IF m.torBinaryPath # << >> /\ ~isExecutableFileLocal(fs, m.torBinaryPath)
  THEN [ ret |-> FALSE,
         out_error |-> << "Tor binary is not an executable regular file at: ",
                          m.torBinaryPath,
                          "  (tip: on macOS/Homebrew it is often /opt/homebrew/bin/tor)" >>,
         calls |-> BinaryCalls(m, fs) ]
  ELSE validateDataDirectory(m, fs, BinaryCalls(m, fs), out_error)

\* bool SetupStructure::initialize(std::string& out_error): the members
\* after the call.
initialize(m, fs, out_error) ==
  IF validate(m, fs, out_error).ret THEN m
  ELSE [ m EXCEPT !.lastError = validate(m, fs, out_error).out_error ]

\* The paths the constructor assigns (lines 31-41) and the other install
\* location it names (line 33).
P_tor == << "/", "o", "p", "t", "/", "h", "o", "m", "e", "b", "r", "e", "w", "/", "b", "i", "n", "/", "t", "o", "r" >>

P_usrlocal == << "/", "u", "s", "r", "/", "l", "o", "c", "a", "l", "/", "b", "i", "n", "/", "t", "o", "r" >>

P_data == << ".", "/", "t", "o", "r", "_", "d", "a", "t", "a" >>

P_cookie == P_data \o << "/", "c", "o", "n", "t", "r", "o", "l", "_", "a", "u", "t", "h", "_", "c", "o", "o", "k", "i", "e" >>

P_log == << ".", "/", "t", "o", "r", ".", "l", "o", "g" >>

\* SetupStructure::SetupStructure(): the members after construction.  They
\* are private and have no setter; lastError_ alone changes later.
Constructed ==
  [ controlPort    |-> 9051,
    torBinaryPath  |-> P_tor,
    dataDirectory  |-> P_data,
    cookieAuthFile |-> P_cookie,
    logFile        |-> P_log,
    lastError      |-> << >> ]

\* The file systems validate() may meet, as far as it asks: the root and
\* the working directory exist and the process may or may not write to
\* them; ./tor_data may exist, writable or not; the executable may be in
\* place, with or without the permission to execute it.
FileSystems ==
  { [ dirs  |-> { P_root, P_dot } \cup d,
      files |-> f,
      w     |-> w,
      x     |-> x ] :
      d \in { { }, { P_data } }, f \in { { }, { P_tor } },
      w \in SUBSET { P_root, P_dot, P_data }, x \in SUBSET { P_tor } }

Finished(op, r) ==
  [ op |-> op, ret |-> r.ret, out_error |-> r.out_error, calls |-> r.calls ]

InitServer ==
  /\ config = DefaultConfig
  /\ control_fd = -1
  /\ service_id = << >>
  /\ private_key = << >>
  /\ ready = FALSE
  /\ open_fds = { }
  /\ conn_authed = { }
  /\ conn_booted = { }
  /\ io = << >>
  /\ sent = << >>
  /\ steps = << >>
  /\ call = [ op |-> "none", ret |-> TRUE ]
  /\ prev = "other"
  /\ first_addr = << >>
  /\ pf = NoPair
  /\ xfer = NoXfer
  /\ log = << >>
  /\ blocked = FALSE
  /\ tor = NoTor
  /\ \E fs \in FileSystems :
       /\ fs.w \subseteq fs.dirs
       /\ fs.x \subseteq fs.files
       /\ srv = [ m |-> Constructed, fs |-> fs, was |-> Constructed,
                  last |-> [ op |-> "none" ] ]

\* What a caller holds in the string it passes as out_error.
Priors == { << >>, << "prior" >> }

\* A call on the SetupStructure: was keeps the members as they were before.
CallValidate ==
  /\ \E prior \in Priors :
       srv' = [ srv EXCEPT !.was = srv.m,
                           !.last = Finished("validate",
                                             validate(srv.m, srv.fs, prior)) ]
  /\ UNCHANGED << config, control_fd, service_id, private_key, ready, open_fds,
                  conn_authed, conn_booted, io, sent, steps, call, prev,
                  first_addr, pf, xfer, log, blocked, tor >>

CallInitialize ==
  /\ \E prior \in Priors :
       srv' = [ srv EXCEPT !.was = srv.m,
                           !.m = initialize(srv.m, srv.fs, prior),
                           !.last = Finished("initialize",
                                             validate(srv.m, srv.fs, prior)) ]
  /\ UNCHANGED << config, control_fd, service_id, private_key, ready, open_fds,
                  conn_authed, conn_booted, io, sent, steps, call, prev,
                  first_addr, pf, xfer, log, blocked, tor >>

NextServer ==
  \/ CallValidate
  \/ CallInitialize

SpecServer == InitServer /\ [][NextServer]_vars

(* ------------------ ConfigureTor::ensureConfigured ------------------- *)

\* The conventional install locations, in the order they are probed.
SearchList == << P_tor, P_usrlocal >>

\* ConfigureTor::Settings as SetupStructure::configureTor fills it (lines
\* 255-261): the port converted to unsigned short, the times in ms.
SettingsOf(m) ==
  [ control_port            |-> m.controlPort % 65536,
    cookie_group_readable   |-> TRUE,
    append_if_exists        |-> TRUE,
    cookie_timeout          |-> 10000,
    connect_control_timeout |-> 15000,
    spawn_grace             |-> 1000 ]

\* ConfigureTor::Paths as SetupStructure::configureTor fills it (lines
\* 244-252).
PathsOf(m) ==
  [ tor_binary  |-> m.torBinaryPath,
    torrc_path  |-> m.dataDirectory \o << "/", "t", "o", "r", "r", "c" >>,
    data_dir    |-> m.dataDirectory,
    cookie_path |-> m.cookieAuthFile,
    log_file    |-> m.logFile ]

\* ConfigureTor::ConfigureTor(paths, settings); tor_pid_ starts at -1.
NewConfigureTor(paths, settings) ==
  [ paths |-> paths, settings |-> settings, tor_pid |-> -1 ]

\* A call of ensureConfigured in progress: the object t, the host h (exe:
\* the executable files; dir: the data directory, "absent", "open" to
\* others, or "0700"; dir_ok: whether it can be created and repaired;
\* torrc: the configuration file, "absent", "partial" or "complete"; port:
\* the control port accepts connections; cookie: the cookie file is
\* readable; spawned: how many daemons were started; running: the process
\* ids of those that run), what will happen during the call (in), and the
\* steps so far.
Begin(t, h, in) ==
  [ t |-> t, h |-> h, in |-> in, steps |-> << >>, ret |-> TRUE,
    out_error |-> << >> ]

\* Step name has run with result ok; when it fails the call fails with its
\* message.
Stepped(c, name, ok) ==
  [ c EXCEPT !.steps = Append(@, [ name |-> name, ok |-> ok,
                                   resolved |-> c.t.paths.tor_binary \in c.h.exe,
                                   dir |-> c.h.dir, torrc |-> c.h.torrc ]),
             !.ret = ok,
             !.out_error = IF ok THEN @ ELSE << name >> ]

\* The next step runs only when no step has failed.
Then(c, F(_)) == IF c.ret THEN F(c) ELSE c

\* Step 1: an explicit path must be an executable file; without one the
\* first executable of the search list is taken.
ensureTorBinary(c) ==
  LET hits == { i \in 1..Len(SearchList) : SearchList[i] \in c.h.exe }
  IN IF c.t.paths.tor_binary # << >>
     THEN Stepped(c, "ensureTorBinary", c.t.paths.tor_binary \in c.h.exe)
     ELSE IF hits = { } THEN Stepped(c, "ensureTorBinary", FALSE)
     ELSE Stepped([ c EXCEPT !.t.paths.tor_binary =
                      SearchList[CHOOSE i \in hits : \A j \in hits : i <= j] ],
                  "ensureTorBinary", TRUE)

\* Step 2: the root is refused; the directory is created when absent and
\* its permissions are repaired when present.
ensureDataDirectory(c) ==
  IF Canon(c.t.paths.data_dir) = P_root \/ ~c.h.dir_ok
  THEN Stepped(c, "ensureDataDirectory", FALSE)
  ELSE Stepped([ c EXCEPT !.h.dir = "0700" ], "ensureDataDirectory", TRUE)

\* Step 3: a missing file is written, missing directives are appended when
\* the policy allows it.
ensureTorrc(c) ==
  IF c.h.torrc = "partial" /\ ~c.t.settings.append_if_exists
  THEN Stepped(c, "ensureTorrc", FALSE)
  ELSE Stepped([ c EXCEPT !.h.torrc = "complete" ], "ensureTorrc", TRUE)

\* Step 5: the daemon is started and its process id recorded.
spawnTor(c) ==
  IF ~c.in.spawn_ok THEN Stepped(c, "spawnTor", FALSE)
  ELSE Stepped([ c EXCEPT !.h.spawned = @ + 1,
                          !.h.running = @ \cup { 100 + c.h.spawned },
                          !.t.tor_pid = 100 + c.h.spawned ],
               "spawnTor", TRUE)

\* Steps 4 and 5 starting a daemon whether or not the control port is
\* reachable.
spawnAlways(c) == spawnTor(Stepped(c, "controlPortOpen", TRUE))

\* Steps 4 and 5: no daemon is started when the control port is reachable.
spawnIfNeeded(c) ==
  IF c.h.port THEN Stepped(c, "controlPortOpen", TRUE)
  ELSE spawnTor(Stepped(c, "controlPortOpen", TRUE))

\* Step 6: the cookie file is there or appears in time.
waitForCookie(c) ==
  IF c.h.cookie \/ c.in.cookie_comes
  THEN Stepped([ c EXCEPT !.h.cookie = TRUE ], "waitForCookie", TRUE)
  ELSE Stepped(c, "waitForCookie", FALSE)

\* Step 7: the control port accepts a connection in time.
waitForControlPort(c) ==
  IF c.h.port \/ c.in.port_comes
  THEN Stepped([ c EXCEPT !.h.port = TRUE ], "waitForControlPort", TRUE)
  ELSE Stepped(c, "waitForControlPort", FALSE)

\* ensureConfigured starting the daemon before it looks at the data
\* directory and the configuration file.
ensureConfiguredSpawnFirst(t, h, in) ==
  Then(Then(Then(Then(Then(ensureTorBinary(Begin(t, h, in)),
                           spawnIfNeeded),
                      ensureDataDirectory),
                 ensureTorrc),
            waitForCookie),
       waitForControlPort)

\* bool ConfigureTor::ensureConfigured(std::string& out_error)
ensureConfigured(t, h, in) ==
  Then(Then(Then(Then(Then(ensureTorBinary(Begin(t, h, in)),
                           ensureDataDirectory),
                      ensureTorrc),
                 spawnIfNeeded),
            waitForCookie),
       waitForControlPort)

\* bool SetupStructure::configureTor(std::string& out_error): the call of
\* ensureConfigured it makes on a new ConfigureTor.
configureTor(m, h, in) ==
  ensureConfigured(NewConfigureTor(PathsOf(m), SettingsOf(m)), h, in)

\* What may happen during a call: the spawn succeeds or not, the cookie
\* file appears in time or not, the control port opens in time or not.
TorInputs ==
  [ spawn_ok : BOOLEAN, cookie_comes : BOOLEAN, port_comes : BOOLEAN ]

\* The hosts configureTor() may meet.
Hosts ==
  [ exe : { { }, { P_tor }, { P_usrlocal }, { P_tor, P_usrlocal } },
    dir : { "absent", "open", "0700" },
    dir_ok : BOOLEAN,
    torrc : { "absent", "partial", "complete" },
    port : BOOLEAN,
    cookie : BOOLEAN,
    spawned : { 0 },
    running : { { } } ]

\* How many daemons the host starts at most.
MaxProcs == 2

\* configureTor() has returned c: the SetupStructure keeps the message of
\* a failure and holds the new ConfigureTor (configureTor_, empty before
\* the first call) in place of the one it held; the host is as the call
\* left it, and before keeps the host as it was.
FinishTor(c) ==
  /\ c.h.spawned <= MaxProcs
  /\ tor' = [ t |-> << c.t >>, h |-> c.h, before |-> tor.h,
              last |-> [ op |-> "configureTor", ret |-> c.ret,
                         out_error |-> c.out_error, steps |-> c.steps ] ]
  /\ srv' = IF c.ret THEN srv ELSE [ srv EXCEPT !.m.lastError = c.out_error ]
  /\ UNCHANGED << config, control_fd, service_id, private_key, ready, open_fds,
                  conn_authed, conn_booted, io, sent, steps, call, prev,
                  first_addr, pf, xfer, log, blocked >>

\* bool SetupStructure::configureTor(std::string& out_error)
CallConfigureTor ==
  \E in \in TorInputs : FinishTor(configureTor(srv.m, tor.h, in))

\* The daemon ends by itself or is ended from outside: the control port
\* no longer accepts connections and no daemon started here runs.
DaemonStops ==
  /\ tor.h.port
  /\ tor' = [ tor EXCEPT !.h.port = FALSE, !.h.running = { },
                         !.before = tor.h,
                         !.last = [ op |-> "none", ret |-> TRUE,
                                    out_error |-> << >>, steps |-> << >> ] ]
  /\ UNCHANGED << config, control_fd, service_id, private_key, ready, open_fds,
                  conn_authed, conn_booted, io, sent, steps, call, prev,
                  first_addr, pf, xfer, log, blocked, srv >>

\* A SetupStructure as its constructor leaves it, holding no ConfigureTor,
\* on any host.
InitTor ==
  /\ config = DefaultConfig
  /\ control_fd = -1
  /\ service_id = << >>
  /\ private_key = << >>
  /\ ready = FALSE
  /\ open_fds = { }
  /\ conn_authed = { }
  /\ conn_booted = { }
  /\ io = << >>
  /\ sent = << >>
  /\ steps = << >>
  /\ call = [ op |-> "none", ret |-> TRUE ]
  /\ prev = "other"
  /\ first_addr = << >>
  /\ pf = NoPair
  /\ xfer = NoXfer
  /\ log = << >>
  /\ blocked = FALSE
  /\ srv = [ m |-> Constructed,
             fs |-> [ dirs |-> { }, files |-> { }, w |-> { }, x |-> { } ],
             was |-> Constructed, last |-> [ op |-> "none" ] ]
  /\ \E h \in Hosts :
       tor = [ t |-> << >>, h |-> h, before |-> h,
               last |-> [ op |-> "none", ret |-> TRUE, out_error |-> << >>,
                          steps |-> << >> ] ]

NextTor ==
  \/ CallConfigureTor
  \/ DaemonStops

SpecTor == InitTor /\ [][NextTor]_vars

(* ------------------ the identifier of two managers ------------------- *)

\* How often each manager fabricates its identifier.
MaxFabrications == 2

Triple(cfg) ==
  << cfg.local_bind_ip, cfg.local_service_port, cfg.onion_virtual_port >>

WithTriple(cfg, t) ==
  [ cfg EXCEPT !.local_bind_ip = t[1], !.local_service_port = t[2],
               !.onion_virtual_port = t[3] ]

Triples == { S_loopback, S_anyaddr } \X { 5000, 80 } \X { 12345, 80 }

\* The triples that differ from t in at most one component.
Near(t) == { u \in Triples : Cardinality({ i \in 1..3 : u[i] # t[i] }) <= 1 }

\* cfg, cfg with one field outside the triple changed, and cfg with all of
\* them changed.
OtherFields(cfg) ==
  LET all == [ cfg EXCEPT !.tor_control_host = "localhost",
                          !.tor_control_port = 9151,
                          !.auth_mode = "Password",
                          !.tor_cookie_path = "/tmp/cookie",
                          !.tor_control_password = "secret",
                          !.persistence_mode = "ProvidedKey",
                          !.provided_private_key_base64 = S_key,
                          !.bootstrap_timeout = 0,
                          !.redact_secrets_in_logs = FALSE ]
  IN { cfg, all }
       \cup { [ cfg EXCEPT ![f] = all[f] ] :
                f \in { "tor_control_host", "tor_control_port", "auth_mode",
                        "tor_cookie_path", "tor_control_password",
                        "persistence_mode", "provided_private_key_base64",
                        "bootstrap_timeout", "redact_secrets_in_logs" } }

InitId ==
  /\ config = DefaultConfig
  /\ control_fd = -1
  /\ service_id = << >>
  /\ private_key = << >>
  /\ ready = FALSE
  /\ open_fds = { }
  /\ conn_authed = { }
  /\ conn_booted = { }
  /\ io = << >>
  /\ sent = << >>
  /\ steps = << >>
  /\ call = [ op |-> "none", ret |-> TRUE ]
  /\ prev = "other"
  /\ first_addr = << >>
  /\ xfer = NoXfer
  /\ log = << >>
  /\ blocked = FALSE
  /\ srv = NoServer
  /\ tor = NoTor
  /\ \E t \in Triples : \E u \in Near(t) :
       \E c \in OtherFields(WithTriple(DefaultConfig, u)) :
         pf = [ cfg |-> << WithTriple(DefaultConfig, t), c >>,
                ids |-> << << >>, << >> >> ]

\* Manager m fabricates its identifier once more.
Fabricate(m) ==
  /\ Len(pf.ids[m]) < MaxFabrications
  /\ pf' = [ pf EXCEPT !.ids[m] = Append(@, makeDeterministicStubId(pf.cfg[m])) ]
  /\ UNCHANGED << config, control_fd, service_id, private_key, ready, open_fds,
                  conn_authed, conn_booted, io, sent, steps, call, prev,
                  first_addr, xfer, log, blocked, srv, tor >>

NextId == \E m \in 1..2 : Fabricate(m)

SpecId == InitId /\ [][NextId]_vars

(* ------------------------------ claims ------------------------------- *)

Stub == config.enable_stub_mode

Real == ~config.enable_stub_mode

\* C1: in simulation mode setupHiddenService() returns true from every
\* reachable state, and then isReady() is true and onionAddress() is the
\* fabricated identifier followed by ".onion", which is not empty.
C1_StubSetupSucceeds ==
  (Stub /\ call.op = "setupHiddenService") =>
    /\ call.ret
    /\ isReady
    /\ serviceID = makeDeterministicStubId(config)
    /\ onionAddress = serviceID \o S_onion
    /\ Len(onionAddress) > Len(S_onion)

\* A setup has followed a teardown that followed a setup.
C1_Witness ==
  /\ Stub
  /\ call.op = "setupHiddenService" /\ call.ret /\ isReady
  /\ prev = "other"
  /\ first_addr # << >>

\* C2: in simulation mode every setup publishes the address the first setup
\* published, and a teardown that directly follows a teardown returns
\* success, as the one before it did.
C2_StubIdempotent ==
  /\ (Stub /\ call.op = "setupHiddenService") => onionAddress = first_addr
  /\ (Stub /\ call.op = "teardownHiddenService" /\ prev # "other") =>
       (prev = "same_ok" /\ call.ret)

\* A setup has directly followed a successful setup.
C2_Witness ==
  /\ Stub
  /\ call.op = "setupHiddenService" /\ prev = "same_ok"
  /\ onionAddress = first_addr /\ first_addr # << >>

\* C3: two managers whose configurations agree on (bind address, service
\* port, virtual port) fabricate the same identifier whatever their other
\* fields are, and one manager fabricates the same identifier every time.
C3_IdDependsOnTripleOnly ==
  \A m \in DOMAIN pf.cfg, n \in DOMAIN pf.cfg :
    Triple(pf.cfg[m]) = Triple(pf.cfg[n]) =>
      \A i \in DOMAIN pf.ids[m], j \in DOMAIN pf.ids[n] :
        pf.ids[m][i] = pf.ids[n][j]

\* Two managers that differ only outside the triple have both fabricated
\* their identifier, one of them twice.
C3_Witness ==
  /\ pf.cfg # << >>
  /\ Triple(pf.cfg[1]) = Triple(pf.cfg[2])
  /\ pf.cfg[1].tor_control_port # pf.cfg[2].tor_control_port
  /\ Len(pf.ids[1]) = 2 /\ Len(pf.ids[2]) >= 1

\* C4: in simulation mode no operation makes a system call on a socket or
\* on the cookie file, no command reaches a socket, no socket is open and
\* control_fd_ stays -1.
C4_StubNoIO ==
  Stub => (io = << >> /\ sent = << >> /\ open_fds = { } /\ control_fd = -1)

\* sendCommand has returned success on a manager that is set up.
C4_Witness ==
  /\ Stub
  /\ call.op = "sendCommand" /\ call.ret
  /\ isReady /\ io = << >>

IsAddOnion(e) == StartsWith(e.cmd, S_ADD_ONION)

\* C5: in real mode a setup that creates the service has run connect,
\* authenticate, waitBootstrapped, addOnion in that order, and no ADD_ONION
\* command is written to a socket on which no status reply has reported
\* PROGRESS >= 100.
C5_CreateAfterBootstrap ==
  (Real /\ call.op = "setupHiddenService") =>
    /\ \A i \in DOMAIN sent : IsAddOnion(sent[i]) => sent[i].booted
    /\ call.ret =>
         [ i \in DOMAIN steps |-> steps[i].name ]
           = << "connectControl", "authenticate", "waitBootstrapped", "addOnion" >>

\* The steps of the last call up to its first failed one.
FirstFailure ==
  IF \E i \in DOMAIN steps : ~steps[i].ret
  THEN CHOOSE i \in DOMAIN steps : ~steps[i].ret /\ \A j \in 1..(i - 1) : steps[j].ret
  ELSE 0

\* C6: in real mode, after a failed step of setup() only closeControl runs,
\* and when setup() has returned failure the session is Disconnected and no
\* socket the manager opened is open.
C6_FailedSetupDisconnected ==
  (Real /\ call.op = "setupHiddenService" /\ ~call.ret) =>
    /\ \A i \in DOMAIN steps : i > FirstFailure => steps[i].name = "closeControl"
    /\ control_fd = -1
    /\ open_fds = { }

\* C7: a setup that returned true left a service identifier, and whenever
\* isReady() is true serviceID() and onionAddress() are not empty.
C7_ReadyHasIdentifier ==
  /\ (call.op = "setupHiddenService" /\ call.ret) => serviceID # << >>
  /\ isReady => (serviceID # << >> /\ onionAddress # << >>)

\* A real-mode setup has failed on a manager that was ready.
C7_Witness ==
  /\ Real
  /\ call.op = "setupHiddenService" /\ ~call.ret
  /\ isReady /\ serviceID # << >>

\* C8: after a setup() that returned failure isReady() is false.
C8_FailedSetupNotReady ==
  (call.op = "setupHiddenService" /\ ~call.ret) => ~isReady

\* C9: a real-mode teardown runs delOnion (when an identifier is held) and
\* then closeControl, closeControl also after a failed delOnion, and it
\* returns true exactly when every step it ran succeeded.
C9_TeardownOrder ==
  (Real /\ call.op = "teardownHiddenService") =>
    /\ Len(steps) \in { 1, 2 }
    /\ steps[Len(steps)].name = "closeControl"
    /\ Len(steps) = 2 => steps[1].name = "delOnion"
    /\ call.ret <=> \A i \in DOMAIN steps : steps[i].ret

\* A removal has failed, closeControl has run, teardown has returned false.
C9_Witness ==
  /\ Real
  /\ call.op = "teardownHiddenService" /\ ~call.ret
  /\ steps = << [ name |-> "delOnion", ret |-> FALSE ],
                [ name |-> "closeControl", ret |-> TRUE ] >>

\* C10: after teardownHiddenService(), whatever it returned, no identifier
\* and no private key is held, isReady() is false and onionAddress() is
\* empty; in real mode control_fd_ is -1.
C10_TeardownClears ==
  (call.op = "teardownHiddenService") =>
    /\ serviceID = << >>
    /\ private_key = << >>
    /\ ~isReady
    /\ onionAddress = << >>
    /\ Real => control_fd = -1

\* A real-mode teardown has failed after a setup had succeeded.
C10_Witness ==
  /\ Real
  /\ call.op = "teardownHiddenService" /\ ~call.ret
  /\ first_addr # << >>
  /\ serviceID = << >> /\ private_key = << >>

\* The manager: its fields and the sockets the process holds open.
Manager == << control_fd, service_id, private_key, ready, open_fds >>

\* The service record: identifier, private key and readiness.
Record == << service_id, private_key, ready >>

\* C11 as claimed: in real mode delOnion and teardownHiddenService, called
\* while no identifier is held, return true, put nothing on a socket and
\* leave the whole state as it was.
C11_NoServiceNoOp ==
  [][ (Real /\ service_id = << >>
         /\ call'.op \in { "delOnion", "teardownHiddenService" })
        => (call'.ret /\ sent' = << >> /\ io' = << >> /\ Manager' = Manager)
    ]_vars

\* C11, amended: in real mode delOnion called while no identifier is held
\* returns true, puts nothing on a socket and leaves the whole state as it
\* was; teardownHiddenService called while no identifier is held returns
\* true, puts nothing on a socket, leaves the service record and the open
\* sockets as they were and leaves control_fd_ at -1.
C11_NoServiceNoCommand ==
  [][ (Real /\ service_id = << >>
         /\ call'.op \in { "delOnion", "teardownHiddenService" })
        => /\ call'.ret /\ sent' = << >> /\ io' = << >>
           /\ Record' = Record /\ open_fds' = open_fds
           /\ control_fd' = IF call'.op = "delOnion" THEN control_fd ELSE -1
    ]_vars

\* delOnion has returned true on a connected manager that holds no
\* identifier.
C11_Witness ==
  /\ Real
  /\ call.op = "delOnion" /\ call.ret
  /\ service_id = << >> /\ control_fd >= 0
  /\ sent = << >>

\* C12 as claimed: in real mode delOnion called while an identifier is held
\* and control_fd_ is -1 returns true and puts no command on a socket.
C12_NotConnectedNoOpSuccess ==
  [][ (Real /\ service_id # << >> /\ control_fd < 0 /\ call'.op = "delOnion")
        => (call'.ret /\ sent' = << >>)
    ]_vars

\* C12, amended: in real mode delOnion called while an identifier is held
\* and control_fd_ is -1 returns false, puts no command on a socket and
\* leaves the state as it was.
C12_NotConnectedFails ==
  [][ (Real /\ service_id # << >> /\ control_fd < 0 /\ call'.op = "delOnion")
        => (~call'.ret /\ sent' = << >> /\ io' = << >> /\ Manager' = Manager)
    ]_vars

\* delOnion has failed on a manager that holds an identifier and has given
\* up its connection.
C12_Witness ==
  /\ Real
  /\ call.op = "delOnion" /\ ~call.ret
  /\ service_id # << >> /\ control_fd = -1 /\ open_fds # { }
  /\ io = << >>

\* C13: in real mode authenticate() called while control_fd_ is -1 returns
\* false, makes no system call, puts nothing on a socket and leaves the
\* state as it was.
C13_NoAuthBeforeConnect ==
  [][ (Real /\ control_fd = -1 /\ call'.op = "authenticate")
        => (~call'.ret /\ io' = << >> /\ sent' = << >> /\ Manager' = Manager
              /\ conn_authed' = conn_authed)
    ]_vars

\* authenticate() has failed in cookie mode after closeControl() gave up a
\* connection.
C13_Witness ==
  /\ Real /\ config.auth_mode = "Cookie"
  /\ call.op = "authenticate" /\ ~call.ret
  /\ control_fd = -1 /\ open_fds # { }
  /\ io = << >>

IsDelOnion(e) == StartsWith(e.cmd, S_DEL_ONION)

\* C14: in real mode no ADD_ONION and no DEL_ONION command is put on a
\* socket on which no AUTHENTICATE command has succeeded before.
C14_ServiceCommandsAfterAuth ==
  Real =>
    \A i \in DOMAIN sent :
      (IsAddOnion(sent[i]) \/ IsDelOnion(sent[i])) => sent[i].authed

\* The reply L is an identifier line, a key line and "250 OK", spelled as
\* the daemon spells them.
IsIdKeyReply(L) ==
  /\ Len(L) = 3
  /\ StartsWith(L[1], S_ServiceID) /\ Len(L[1]) > Len(S_ServiceID)
  /\ StartsWith(L[2], S_PrivateKey) /\ Len(L[2]) > Len(S_PrivateKey)
  /\ L[3] = S_250_OK

\* The reply L is an identifier line and "250 OK".
IsIdReply(L) ==
  /\ Len(L) = 2
  /\ StartsWith(L[1], S_ServiceID) /\ Len(L[1]) > Len(S_ServiceID)
  /\ L[2] = S_250_OK

\* C15: in real Ephemeral mode addOnion, given the reply "250-ServiceID=<id>",
\* "250-PrivateKey=<key>", "250 OK", returns true and holds <id> and <key>;
\* given "250-ServiceID=<id>", "250 OK" it returns true and holds <id>.
C15_EphemeralReplyStored ==
  (Real /\ config.persistence_mode = "Ephemeral"
     /\ call.op = "addOnion" /\ sent # << >>) =>
    /\ IsIdKeyReply(xfer.peer) =>
         /\ call.ret
         /\ service_id = Substr(xfer.peer[1], Len(S_ServiceID))
         /\ private_key = Substr(xfer.peer[2], Len(S_PrivateKey))
    /\ IsIdReply(xfer.peer) =>
         /\ call.ret
         /\ service_id = Substr(xfer.peer[1], Len(S_ServiceID))

\* A final line whose status code does not start with 2.
IsFailureLine(line) ==
  /\ Len(line) >= 4
  /\ line[1] \in { "0", "1", "3", "4", "5", "6", "7", "8", "9" }
  /\ line[2] \in { Digits[i] : i \in 1..10 }
  /\ line[3] \in { Digits[i] : i \in 1..10 }
  /\ line[4] = " "

\* C16: in real mode addOnion, given a reply whose final line is a failure
\* line, returns false and holds the identifier and the key it held before.
C16_FailureReplyStoresNothing ==
  [][ (Real /\ call'.op = "addOnion" /\ sent' # << >> /\ xfer'.peer # << >>
         /\ IsFailureLine(xfer'.peer[Len(xfer'.peer)]))
        => (~call'.ret /\ service_id' = service_id /\ private_key' = private_key)
    ]_vars

\* addOnion has failed on a failure reply that carried an identifier, on a
\* manager that held another identifier.
C16_Witness ==
  /\ Real
  /\ call.op = "addOnion" /\ ~call.ret /\ sent # << >>
  /\ xfer.peer = << S_ServiceId \o << "z", "z" >>, S_PrivateKey \o << "k" >>,
                    L_550 >>
  /\ service_id \notin { << >>, << "z", "z" >> }

\* C17: in real ProvidedKey mode with an empty key addOnion returns false,
\* makes no system call, puts no byte on a socket and leaves the service
\* record as it was.
C17_EmptyKeyFailsBeforeSend ==
  [][ (Real /\ config.persistence_mode = "ProvidedKey"
         /\ config.provided_private_key_base64 = << >>
         /\ call'.op = "addOnion")
        => (~call'.ret /\ io' = << >> /\ sent' = << >> /\ Record' = Record)
    ]_vars

\* addOnion has failed on a connected manager whose supplied key is empty.
C17_Witness ==
  /\ Real
  /\ config.persistence_mode = "ProvidedKey"
  /\ config.provided_private_key_base64 = << >>
  /\ call.op = "addOnion" /\ ~call.ret
  /\ control_fd >= 0 /\ conn_authed = { control_fd }
  /\ io = << >>

\* C18: when the peer replies with zero or more continuation lines and then
\* one final line, however read() cuts the stream, sendCommand returns those
\* lines in their order and returns true exactly when the final line starts
\* with 2.
C18_ReplyLinesAndStatus ==
  (Real /\ call.op = "sendCommand" /\ sent # << >>) =>
    /\ xfer.lines = xfer.peer
    /\ call.ret <=> (xfer.peer[Len(xfer.peer)][1] = "2")

\* sendCommand has returned false on two different continuation lines and
\* a failure line that read() delivered in more than three pieces.
C18_Witness ==
  /\ Real
  /\ call.op = "sendCommand" /\ ~call.ret /\ sent # << >>
  /\ Len(xfer.peer) = 3 /\ xfer.peer[1] # xfer.peer[2]
  /\ xfer.peer[3] = L_550
  /\ xfer.lines = xfer.peer
  /\ Len(io) > 4

NibbleChar ==
  << "0", "1", "2", "3", "4", "5", "6", "7", "8", "9", "A", "B", "C", "D", "E", "F" >>

\* C19: the command authenticate puts on the socket is "AUTHENTICATE ", then
\* for each byte of the cookie file, in order, the character of its high
\* nibble and the character of its low nibble from 0-9A-F, then CRLF.
C19_CookieHex ==
  (Real /\ call.op = "authenticate" /\ sent # << >>) =>
    LET cmd == sent[1].cmd
        hex == SubSeq(cmd, Len(S_AUTHENTICATE) + 1, Len(cmd) - 2)
    IN /\ StartsWith(cmd, S_AUTHENTICATE)
       /\ SubSeq(cmd, Len(cmd) - 1, Len(cmd)) = S_CRLF
       /\ Len(hex) = 2 * Len(xfer.cookie)
       /\ \A i \in 1..Len(xfer.cookie) :
            /\ hex[2 * i - 1] = NibbleChar[(xfer.cookie[i] \div 16) + 1]
            /\ hex[2 * i] = NibbleChar[(xfer.cookie[i] % 16) + 1]

\* authenticate has succeeded with the cookie bytes 0x0A 0xA0.
C19_Witness ==
  /\ Real
  /\ call.op = "authenticate" /\ call.ret /\ sent # << >>
  /\ xfer.cookie = << 10, 160 >>

\* C20: closeControl() returns true and leaves control_fd_ at -1; called on
\* a connected manager it closes the socket control_fd_ named, once, and
\* called again it makes no system call.
C20_CloseReleasesSocket ==
  [][ (Real /\ call'.op = "closeControl")
        => /\ call'.ret /\ control_fd' = -1
           /\ control_fd >= 0 =>
                (control_fd \notin open_fds' /\ io' = << "close" >>)
           /\ control_fd < 0 => (open_fds' = open_fds /\ io' = << >>)
    ]_vars

\* sendCommand has written its whole command to the socket.
Replied ==
  /\ Real /\ call.op = "sendCommand"
  /\ sent # << >> /\ sent[1].delivered = sent[1].cmd

\* Three digits and a space: a final line.
IsFinalLine(line) ==
  /\ Len(line) >= 4
  /\ \A i \in 1..3 : line[i] \in { Digits[d] : d \in 1..10 }
  /\ line[4] = " "

HasFinal(L) == \E i \in 1..Len(L) : IsFinalLine(L[i])

\* The index of the first final line of L.
FirstFinal(L) ==
  CHOOSE i \in 1..Len(L) : IsFinalLine(L[i]) /\ \A j \in 1..(i - 1) : ~IsFinalLine(L[j])

\* C24: when the peer sends a final line, the reply of sendCommand is the
\* lines up to the first final line and no line behind it, and sendCommand
\* returns true exactly when that line starts with 2.
C24_StopsAtFirstFinal ==
  (Replied /\ HasFinal(xfer.peer)) =>
    /\ xfer.lines = SubSeq(xfer.peer, 1, FirstFinal(xfer.peer))
    /\ call.ret <=> (xfer.peer[FirstFinal(xfer.peer)][1] = "2")

\* What sendCommand makes of the reads: the lines and the result.
Outcome(reads) ==
  LET rd == ReadLoop(reads, << >>, << >>, 0)
  IN << rd.lines, rd.ok >>

\* C25: the lines and the result of sendCommand are those it returns when
\* read() delivers the same bytes in one piece.
C25_ChunkingIrrelevant ==
  Replied => << xfer.lines, call.ret >> = Outcome(Delivered(xfer.peer).reads)

\* C26: when the peer closes the stream and has sent no final line,
\* sendCommand returns false, whatever lines it has received.
C26_EofBeforeFinalFails ==
  (Replied /\ ~HasFinal(xfer.peer)) => ~call.ret

\* sendCommand has failed on two continuation lines, delivered byte by byte,
\* after which the peer closed.
C26_Witness ==
  /\ Replied /\ ~call.ret
  /\ xfer.peer = << L_A, L_650 >>
  /\ xfer.lines = xfer.peer
  /\ Len(xfer.reads) > 2
  /\ io[Len(io)] = "read"

\* Three digits and then a dash or a space: a reply line.
IsReplyLine(line) ==
  /\ Len(line) >= 4
  /\ \A i \in 1..3 : line[i] \in { Digits[d] : d \in 1..10 }
  /\ line[4] \in { "-", " " }

\* C27: when the peer sends a line that is no reply line before the first
\* final line, sendCommand returns false and that line is not in its reply.
C27_MalformedLineFails ==
  (Replied /\ HasFinal(xfer.peer)
     /\ \E i \in 1..FirstFinal(xfer.peer) : ~IsReplyLine(xfer.peer[i])) =>
    /\ ~call.ret
    /\ \A j \in 1..Len(xfer.lines) : IsReplyLine(xfer.lines[j])

\* Whether the write() calls of the script end in an error while bytes of
\* the command are left.
RECURSIVE WriteFails(_, _)
WriteFails(writes, left) ==
  IF left = 0 \/ writes = << >> THEN FALSE
  ELSE IF Head(writes).k = "err" THEN TRUE
  ELSE IF Head(writes).k = "eintr" THEN WriteFails(Tail(writes), left)
  ELSE WriteFails(Tail(writes), left - Min(Head(writes).n, left))

\* C28: when no write() fails with an error other than EINTR, the bytes the
\* socket has taken are the command, each byte once and in order; when one
\* does, sendCommand returns false and has read nothing, and the socket has
\* taken a proper prefix of the command.
C28_WritesWholeCommand ==
  (Real /\ call.op = "sendCommand" /\ io # << >>) =>
    IF WriteFails(xfer.writes, Len(S_GETINFO))
    THEN /\ ~call.ret
         /\ \A i \in 1..Len(io) : io[i] = "write"
         /\ \A i \in 1..Len(sent) :
              /\ Len(sent[i].delivered) < Len(S_GETINFO)
              /\ StartsWith(S_GETINFO, sent[i].delivered)
    ELSE /\ Len(sent) = 1
         /\ sent[1].delivered = S_GETINFO

\* sendCommand has succeeded after a short write, an interrupted write and
\* another short write.
C28_Witness ==
  /\ Real /\ call.op = "sendCommand" /\ call.ret
  /\ xfer.writes = << WAccept(5), WEintr, WAccept(3) >>
  /\ sent[1].delivered = S_GETINFO
  /\ Len(io) = 5

\* authenticate has written its whole command to the socket.
AuthSent ==
  /\ Real /\ call.op = "authenticate"
  /\ sent # << >> /\ sent[1].delivered = sent[1].cmd

\* The final line of the reply starts with 2.
FinalSucceeds(L) == L[Len(L)][1] = "2"

\* C29 as claimed: authenticate() on a connected session with a cookie that
\* is not empty returns true exactly when the final line of the reply to
\* AUTHENTICATE starts with 2.
C29_AuthIffFinalSuccess ==
  AuthSent => (call.ret <=> FinalSucceeds(xfer.peer))

\* The first line of L that starts with "250" or with "5" starts with "250".
FirstCodeIs250(L) ==
  \E i \in 1..Len(L) :
    /\ StartsWith(L[i], S_250)
    /\ \A j \in 1..(i - 1) : ~StartsWith(L[j], S_250) /\ ~StartsWith(L[j], S_5)

\* C29, amended: for a reply of zero or more continuation lines and one
\* final line, authenticate() on a connected session with a cookie that is
\* not empty returns true exactly when the final line starts with 2 and the
\* first reply line that starts with "250" or with "5" starts with "250".
C29_AuthIffFinalSuccessAnd250 ==
  AuthSent =>
    (call.ret <=> (FinalSucceeds(xfer.peer) /\ FirstCodeIs250(xfer.peer)))

\* authenticate has failed on a reply whose final line is "251 OK", read
\* byte by byte.
C29_Witness ==
  /\ AuthSent /\ ~call.ret
  /\ xfer.peer = << L_650, L_251 >>
  /\ Len(xfer.reads) > 1
  /\ conn_authed = { control_fd }

\* C30: in real mode authenticate() returns false and writes no command
\* when the mode is not Cookie, when the cookie file does not open and when
\* it is empty; the connection stays open and the state is as it was.
C30_NoCookieNoCommand ==
  [][ (Real /\ call'.op = "authenticate"
         /\ (\/ config.auth_mode # "Cookie"
             \/ xfer'.file = "missing"
             \/ (xfer'.file = "read" /\ xfer'.cookie = << >>)))
        => /\ ~call'.ret /\ sent' = << >>
           /\ \A i \in 1..Len(io') : io'[i] \notin { "write", "read", "close" }
           /\ Manager' = Manager /\ conn_authed' = conn_authed
    ]_vars

\* authenticate has failed on a missing cookie file, on a session that was
\* authenticated and still is.
C30_Witness ==
  /\ Real /\ call.op = "authenticate" /\ ~call.ret
  /\ xfer.file = "missing"
  /\ io = << "fopen" >>
  /\ control_fd >= 0 /\ control_fd \in open_fds
  /\ conn_authed = { control_fd }

\* The time from the start of waitBootstrapped to the clock reading of its
\* k-th pass: the passes take their time and a sleep lies between two.
RECURSIVE ElapsedAt(_, _)
ElapsedAt(polls, k) ==
  IF k = 0 THEN 0
  ELSE polls[k].took + (IF k = 1 THEN 0 ELSE SleepMs + ElapsedAt(polls, k - 1))

\* C21: waitBootstrapped() on a connected session returns; it starts no
\* pass after a pass at whose end the timeout had elapsed, and it returns
\* false when its last pass has met no progress of 100.
C21_WaitReturnsByTimeout ==
  (Real /\ call.op = "waitBootstrapped" /\ sent # << >>) =>
    /\ ~blocked
    /\ \A k \in 1..(Len(sent) - 1) :
         ElapsedAt(xfer.polls, k) <= config.bootstrap_timeout
    /\ call.ret <=>
         (xfer.polls[Len(sent)].sc.reads = << RData(R_Boot(100)) >>)

\* The keys the last call knew: the key the manager holds, the key of the
\* configuration, and the keys in the PrivateKey lines the peer sent.
KnownKeys ==
  ({ private_key, config.provided_private_key_base64 }
     \cup { Substr(xfer.peer[j], Len(S_PrivateKey)) :
              j \in { i \in 1..Len(xfer.peer) : StartsWith(xfer.peer[i], S_PrivateKey) } })
    \ { << >> }

\* C22: no log line of any operation contains a private key: not the key
\* the daemon returned, not the key the manager holds, not the key of the
\* configuration.
C22_KeyNeverLogged ==
  \A i \in 1..Len(log) : \A key \in KnownKeys : Find(log[i].text, key) = -1

\* Some line of L is an identifier field, in either spelling, with a value.
HasIdField(L) ==
  \E i \in 1..Len(L) :
    \/ StartsWith(L[i], S_ServiceId) /\ Len(L[i]) > Len(S_ServiceId)
    \/ StartsWith(L[i], S_ServiceID) /\ Len(L[i]) > Len(S_ServiceID)

\* C31: in real mode addOnion, given a reply whose final line reports
\* success and in which no identifier field has a value, returns false and
\* holds the identifier and the key it held before; when it returns true it
\* holds an identifier that is not empty and is the value of an identifier
\* field of the reply.
C31_NoIdentifierFails ==
  [][ (Real /\ call'.op = "addOnion") =>
        /\ (sent' # << >> /\ xfer'.peer # << >>
              /\ IsFinalLine(xfer'.peer[Len(xfer'.peer)])
              /\ FinalSucceeds(xfer'.peer) /\ ~HasIdField(xfer'.peer))
             => (~call'.ret /\ service_id' = service_id
                   /\ private_key' = private_key)
        /\ call'.ret =>
             /\ service_id' # << >>
             /\ \E i \in 1..Len(xfer'.peer) :
                  /\ StartsWith(xfer'.peer[i], S_ServiceId)
                  /\ service_id' = Substr(xfer'.peer[i], Len(S_ServiceId))
    ]_vars

\* addOnion has failed on a successful reply whose identifier field is
\* empty, on a manager that holds an identifier and a key.
C31_Witness ==
  /\ Real
  /\ call.op = "addOnion" /\ ~call.ret /\ sent # << >>
  /\ xfer.peer = << S_ServiceId, S_PrivateKey \o << "q" >>, S_250_OK >>
  /\ service_id # << >> /\ private_key # << >>


\* C32: in real mode, when delOnion sends a command, the bytes it writes
\* are "DEL_ONION", one space, the identifier held, CR LF; when the reply
\* succeeds the identifier and the key are cleared, and when it fails they
\* are as they were.
C32_RemovalCommand ==
  [][ (Real /\ call'.op = "delOnion" /\ sent' # << >>) =>
        /\ sent'[1].cmd = S_DEL_ONION \o S_space \o service_id \o S_CRLF
        /\ call'.ret => (service_id' = << >> /\ private_key' = << >>)
        /\ ~call'.ret => (service_id' = service_id /\ private_key' = private_key)
    ]_vars


\* C33: in every reachable state a private key is held only if the
\* persistence mode is Ephemeral and a service identifier is held; in
\* ProvidedKey mode and in simulation mode no private key is held.
C33_KeyOnlyEphemeralWithId ==
  /\ private_key # << >> =>
       (config.persistence_mode = "Ephemeral" /\ service_id # << >>)
  /\ (config.persistence_mode = "ProvidedKey" \/ config.enable_stub_mode) =>
       private_key = << >>

\* A manager in Ephemeral mode holds an identifier and a key after a setup.
C33_Witness ==
  /\ Real /\ config.persistence_mode = "Ephemeral"
  /\ call.op = "setupHiddenService" /\ call.ret
  /\ service_id # << >> /\ private_key # << >>


\* The number the leading decimal digits of s write, counted up to 1000.
RECURSIVE DecimalAt(_, _)
DecimalAt(s, acc) ==
  IF s = << >> \/ ~isdigit(Head(s)) THEN acc
  ELSE DecimalAt(Tail(s), IF acc >= 100 THEN 1000 ELSE 10 * acc + (Ord(Head(s)) - 48))

\* The line carries, at position p, the token PROGRESS=<n> with n >= 100.
ProgressTokenAt(line, p) ==
  /\ Len(line) >= p + Len(S_PROGRESS)
  /\ SubSeq(line, p, p + Len(S_PROGRESS) - 1) = S_PROGRESS
  /\ isdigit(line[p + Len(S_PROGRESS)])
  /\ DecimalAt(SubSeq(line, p + Len(S_PROGRESS), Len(line)), 0) >= 100

\* The reply L ends with a final line that reports success.
ReplySucceeds(L) ==
  L # << >> /\ IsFinalLine(L[Len(L)]) /\ FinalSucceeds(L)

\* A successful status reply with a line that reports progress of 100 or more.
ReportsDone(L) ==
  /\ ReplySucceeds(L)
  /\ \E i \in 1..Len(L) : \E p \in 1..Len(L[i]) : ProgressTokenAt(L[i], p)

\* C34: waitBootstrapped() in real mode, having sent its query, returns
\* true exactly when the reply to its last query is a successful reply with
\* a line that carries PROGRESS=<n>, n >= 100; every query before the last
\* was answered by a successful reply without such a line (no query follows
\* a reply that reports 100, and none follows a failed reply).
C34_SucceedsAtFirstDone ==
  (Real /\ call.op = "waitBootstrapped" /\ sent # << >>) =>
    /\ call.ret <=> ReportsDone(xfer.polls[Len(sent)].lines)
    /\ \A k \in 1..(Len(sent) - 1) :
         /\ ReplySucceeds(xfer.polls[k].lines)
         /\ ~ReportsDone(xfer.polls[k].lines)

\* waitBootstrapped has returned true on its second query, whose reply
\* reports 100 on its second line.
C34_Witness ==
  /\ Real
  /\ call.op = "waitBootstrapped" /\ call.ret
  /\ Len(sent) = 2
  /\ xfer.polls[2].lines = << L_A, BootLine(100), S_250_OK >>


\* C35: in real mode at most one socket the manager opened is open, and
\* every open socket it opened is the one control_fd_ refers to.
C35_NoSocketLeaked ==
  Real => (Cardinality(open_fds) <= 1 /\ open_fds \subseteq { control_fd })


\* The steps of ensureConfigured, in their order.
TorSteps ==
  << "ensureTorBinary", "ensureDataDirectory", "ensureTorrc", "controlPortOpen",
     "spawnTor", "waitForCookie", "waitForControlPort" >>

\* The place of a step in that order.
TorStepNo(name) == CHOOSE k \in 1..Len(TorSteps) : TorSteps[k] = name

\* The last call was configureTor(), which runs ensureConfigured() on a new
\* ConfigureTor.
Configured == tor.last.op = "configureTor"

\* C37: ensureConfigured() runs its steps in their order and no step after
\* one that failed; when it spawns the daemon the executable is resolved,
\* the data directory exists with permissions 0700 and the configuration
\* file holds the required directives; the cookie wait comes before the
\* control-port wait; it returns true only if both waits have succeeded.
C37_StepsInOrder ==
  Configured =>
    LET st == tor.last.steps
    IN /\ \A i \in 1..Len(st) : \A j \in 1..Len(st) :
            i < j => (TorStepNo(st[i].name) < TorStepNo(st[j].name) /\ st[i].ok)
       /\ \A i \in 1..Len(st) :
            st[i].name = "spawnTor" =>
              /\ st[i].resolved /\ st[i].dir = "0700" /\ st[i].torrc = "complete"
              /\ i = 5
       /\ tor.last.ret =>
            /\ Len(st) >= 2
            /\ st[Len(st) - 1].name = "waitForCookie" /\ st[Len(st) - 1].ok
            /\ st[Len(st)].name = "waitForControlPort" /\ st[Len(st)].ok

\* configureTor() on a host without data directory and configuration file:
\* ensureConfigured has created both, spawned the daemon and returned true.
C37_Witness ==
  /\ Configured /\ tor.last.ret
  /\ Len(tor.last.steps) = 7
  /\ tor.before.dir = "absent" /\ tor.before.torrc = "absent"
  /\ tor.h.spawned = 1 /\ tor.h.running = { 100 }

\* C38: a call of ensureConfigured() that finds the control port reachable
\* spawns no daemon; the object records a process id only when its call
\* has spawned a daemon, and then the id of that daemon; every daemon that
\* ran before a call runs after it.
C38_NoSecondSpawn ==
  Configured =>
    LET spawned == \E i \in 1..Len(tor.last.steps) :
                     tor.last.steps[i].name = "spawnTor" /\ tor.last.steps[i].ok
    IN /\ tor.before.port => (~spawned /\ tor.h.spawned = tor.before.spawned)
       /\ tor.t[1].tor_pid # -1 =>
            (spawned /\ tor.t[1].tor_pid \in tor.h.running \ tor.before.running)
       /\ tor.h.spawned # tor.before.spawned => spawned
       /\ tor.before.running \subseteq tor.h.running

\* configureTor() has been called again while the daemon an earlier call
\* spawned is reachable: it has returned true, no second daemon was
\* started, and the first one runs.
C38_Witness ==
  /\ Configured /\ tor.last.ret
  /\ tor.before.port /\ tor.before.spawned = 1
  /\ tor.before.running = { 100 }
  /\ tor.h.spawned = 1 /\ tor.h.running = { 100 }
  /\ tor.t[1].tor_pid = -1


HookSteps ==
  << "connectControl", "authenticate", "waitBootstrapped", "addOnion",
     "delOnion", "closeControl" >>

\* The identifiers the daemon announced in the reply L to a creation
\* command, in either spelling of the field.
AnnouncedIn(L) ==
  { Substr(L[i], Len(S_ServiceId)) :
      i \in { k \in 1..Len(L) : StartsWith(L[k], S_ServiceId)
                                   \/ StartsWith(L[k], S_ServiceID) } }

\* The services the hook has created at the daemon: a creation command has
\* reached the daemon whole and the daemon has answered it with success.
CreatedByHook ==
  IF /\ \E i \in DOMAIN sent :
          IsAddOnion(sent[i]) /\ sent[i].delivered = sent[i].cmd
     /\ ReplySucceeds(xfer.peer)
  THEN AnnouncedIn(xfer.peer) ELSE { }

\* The removal command of the control protocol for the identifier id.
RemovalOf(id) == S_DEL_ONION \o S_space \o id \o S_CRLF

\* The services of the hook that are registered at the daemon: no removal
\* command for them has reached the daemon after the creation command.
RemainsRegistered ==
  { id \in CreatedByHook :
      ~\E i \in DOMAIN sent : \E j \in DOMAIN sent :
          /\ i < j /\ IsAddOnion(sent[i]) /\ sent[i].fd = sent[j].fd
          /\ sent[j].delivered = RemovalOf(id) }

\* C23: the steps integrationTestAddOnion runs are, in their order, a
\* prefix of connect, authenticate, waitBootstrapped, create, remove, close,
\* or such a prefix and a close; when it returns true it has run all six
\* and each has succeeded, the address it reports is 56 characters from
\* a-z2-7 and ".onion", and no service it created remains registered at the
\* daemon.
C23_HookLifecycle ==
  (call.op = "integrationTestAddOnion") =>
    LET names == [ i \in DOMAIN steps |-> steps[i].name ]
    IN /\ \E n \in 0..Len(HookSteps) :
            names \in { SubSeq(HookSteps, 1, n),
                        SubSeq(HookSteps, 1, n) \o << "closeControl" >> }
       /\ call.ret =>
            /\ names = HookSteps
            /\ \A i \in DOMAIN steps : steps[i].ret
            /\ Len(xfer.out) = V3Len + 6
            /\ \A i \in 1..V3Len : xfer.out[i] \in Base32
            /\ SubSeq(xfer.out, V3Len + 1, V3Len + 6) = S_onion
            /\ RemainsRegistered = { }

====
